---- MODULE Spec2Model ----
(***************************************************************************)
(* Panel-region computation of the manga page layout tool                  *)
(* (src/src/services/panel_calculator.py, class PanelCalculator).          *)
(*                                                                         *)
(* Numbers.  The program computes in IEEE doubles.  The model computes in  *)
(* exact rationals <<n, d>> (d > 0, lowest terms).  Every comparison of    *)
(* the source against a threshold is kept; the two thresholds of 1e-10     *)
(* (EPSILON, and the literal in _line_intersection) are below the          *)
(* magnitude of every non-zero rational the model can hold (denominators   *)
(* stay under 2^31), so "abs(v) < 1e-10" is "v = 0" and "-eps <= t" is     *)
(* "0 <= t" here.  Square roots are exact on perfect squares, which is     *)
(* what the inputs of Init produce (axis-aligned edges and one 3-4-5       *)
(* diagonal); elsewhere they                                               *)
(* are rounded down to the grid 1/d.                                       *)
(***************************************************************************)
EXTENDS Integers, Sequences, FiniteSets, TLC

----------------------------------------------------------------------------
(* Exact rational arithmetic standing for Python float arithmetic.         *)

RECURSIVE GCD(_, _)
GCD(a, b) == IF b = 0 THEN a ELSE GCD(b, a % b)

IAbs(a) == IF a < 0 THEN -a ELSE a

\* Lowest-terms rational n/d for d # 0.
Norm(n, d) ==
    LET s == IF d < 0 THEN -1 ELSE 1
        g == GCD(IAbs(n), IAbs(d))
    IN  <<(s * n) \div g, (s * d) \div g>>

R(i) == <<i, 1>>

Zero == <<0, 1>>
One == <<1, 1>>

RNeg(p) == <<-p[1], p[2]>>

RAdd(p, q) ==
    IF p[2] = q[2] THEN Norm(p[1] + q[1], p[2])
    ELSE LET g == GCD(p[2], q[2])
         IN  Norm(p[1] * (q[2] \div g) + q[1] * (p[2] \div g), (p[2] \div g) * q[2])

RSub(p, q) == RAdd(p, RNeg(q))

RMul(p, q) ==
    IF p[2] = 1 /\ q[2] = 1 THEN <<p[1] * q[1], 1>>
    ELSE LET g1 == GCD(IAbs(p[1]), q[2])
             g2 == GCD(IAbs(q[1]), p[2])
         IN  <<(p[1] \div g1) * (q[1] \div g2), (p[2] \div g2) * (q[2] \div g1)>>

\* p / q for q # 0 (every division of the source is guarded against 0).
RDiv(p, q) ==
    IF q[1] > 0 THEN RMul(p, <<q[2], q[1]>>) ELSE RMul(p, <<-q[2], -q[1]>>)

RIsZero(p) == p[1] = 0

\* p < q, by cross-multiplication when it cannot overflow, else by floors
\* and reciprocals of the fractional parts (Euclid's descent).
RECURSIVE RLt(_, _)
RLt(p, q) ==
    IF p[2] = q[2] THEN p[1] < q[1]
    ELSE IF IAbs(p[1]) < 30000 /\ IAbs(q[1]) < 30000 /\ p[2] < 30000 /\ q[2] < 30000
         THEN p[1] * q[2] < q[1] * p[2]
    ELSE LET fp == p[1] \div p[2]
             fq == q[1] \div q[2]
             rp == p[1] % p[2]
             rq == q[1] % q[2]
         IN  IF fp # fq THEN fp < fq
             ELSE IF rq = 0 THEN FALSE
             ELSE IF rp = 0 THEN TRUE
             ELSE RLt(<<q[2], rq>>, <<p[2], rp>>)

RLe(p, q) == ~RLt(q, p)

RAbs(p) == <<IAbs(p[1]), p[2]>>

RMin(p, q) == IF RLt(q, p) THEN q ELSE p

RMax(p, q) == IF RLt(p, q) THEN q ELSE p

RSq(p) == RMul(p, p)

\* floor(sqrt(n)) for n >= 0, by Newton's iteration from above.
RECURSIVE NewtonSqrt(_, _)
NewtonSqrt(n, x) ==
    LET y == (x + n \div x) \div 2
    IN  IF y >= x THEN x ELSE NewtonSqrt(n, y)

ISqrt(n) == IF n <= 0 THEN 0 ELSE NewtonSqrt(n, n)

\* x ** 0.5: exact when numerator and denominator are perfect squares,
\* otherwise sqrt(n/d) = sqrt(n*d)/d rounded down to the grid 1/d.
RSqrt(p) ==
    LET sn == ISqrt(p[1])
        sd == ISqrt(p[2])
    IN  IF sn * sn = p[1] /\ sd * sd = p[2] THEN <<sn, sd>>
        ELSE Norm(ISqrt(p[1] * p[2]), p[2])

Pt(x, y) == [x |-> x, y |-> y]

IPt(i, j) == [x |-> R(i), y |-> R(j)]

----------------------------------------------------------------------------
(* Geometry primitives.                                                    *)

POINT_TOLERANCE == <<1, 2>>

MIN_AREA == <<1, 1>>

\* abs(v) < EPSILON (1e-10): only 0 among the rationals of the model.
AbsLtEpsilon(v) == RIsZero(v)

\* -eps <= t <= 1 + eps for eps = EPSILON.
InUnitEpsilon(t) == RLe(Zero, t) /\ RLe(t, One)

None == [ok |-> FALSE]

\* (x1 - x2) * (y3 - y4) - (y1 - y2) * (x3 - x4)
Denom(x1, y1, x2, y2, x3, y3, x4, y4) ==
    RSub(RMul(RSub(x1, x2), RSub(y3, y4)), RMul(RSub(y1, y2), RSub(x3, x4)))

\* ((x1 - x3) * (y3 - y4) - (y1 - y3) * (x3 - x4)) / denom
ParamT(x1, y1, x3, y3, x4, y4, denom) ==
    RDiv(RSub(RMul(RSub(x1, x3), RSub(y3, y4)), RMul(RSub(y1, y3), RSub(x3, x4))), denom)

\* -((x1 - x2) * (y1 - y3) - (y1 - y2) * (x1 - x3)) / denom
ParamU(x1, y1, x2, y2, x3, y3, denom) ==
    RDiv(RNeg(RSub(RMul(RSub(x1, x2), RSub(y1, y3)), RMul(RSub(y1, y2), RSub(x1, x3)))), denom)

\* The hit test with the line taken as infinite: u is not bounded.
segment_hit_any_u(p1, p2, t, u) ==
    IF InUnitEpsilon(t)
    THEN [ok |-> TRUE,
          x |-> RAdd(p1.x, RMul(t, RSub(p2.x, p1.x))),
          y |-> RAdd(p1.y, RMul(t, RSub(p2.y, p1.y))),
          t |-> t]
    ELSE None

\* The return of _segment_intersection once t and u are known.
segment_hit(p1, p2, t, u) ==
    IF InUnitEpsilon(t) /\ InUnitEpsilon(u)
    THEN [ok |-> TRUE,
          x |-> RAdd(p1.x, RMul(t, RSub(p2.x, p1.x))),
          y |-> RAdd(p1.y, RMul(t, RSub(p2.y, p1.y))),
          t |-> t]
    ELSE None

\* _segment_intersection from its denom on.
segment_solve(p1, p2, p3, p4, denom) ==
    IF AbsLtEpsilon(denom) THEN None
    ELSE segment_hit(p1, p2,
             ParamT(p1.x, p1.y, p3.x, p3.y, p4.x, p4.y, denom),
             ParamU(p1.x, p1.y, p2.x, p2.y, p3.x, p3.y, denom))

segment_intersection(p1, p2, p3, p4) ==
    segment_solve(p1, p2, p3, p4,
        Denom(p1.x, p1.y, p2.x, p2.y, p3.x, p3.y, p4.x, p4.y))

RayLength == <<10000, 1>>

RayMinT == <<1, 1000000>>

\* The return of _ray_segment_intersection once t and u are known:
\* t > 1e-6 (forward) and u on the segment.
ray_hit(origin, direction, t, u) ==
    IF RLt(RayMinT, t) /\ InUnitEpsilon(u)
    THEN [ok |-> TRUE,
          x |-> RAdd(origin.x, RMul(RMul(direction.x, RayLength), t)),
          y |-> RAdd(origin.y, RMul(RMul(direction.y, RayLength), t)),
          dist |-> t]
    ELSE None

\* _ray_segment_intersection from its denom on; p2 is the far end of the ray.
ray_solve(origin, direction, p2, p3, p4, denom) ==
    IF AbsLtEpsilon(denom) THEN None
    ELSE ray_hit(origin, direction,
             ParamT(origin.x, origin.y, p3.x, p3.y, p4.x, p4.y, denom),
             ParamU(origin.x, origin.y, p2.x, p2.y, p3.x, p3.y, denom))

ray_from(origin, direction, p2, p3, p4) ==
    ray_solve(origin, direction, p2, p3, p4,
        Denom(origin.x, origin.y, p2.x, p2.y, p3.x, p3.y, p4.x, p4.y))

ray_segment_intersection(origin, direction, p3, p4) ==
    ray_from(origin, direction,
        Pt(RAdd(origin.x, RMul(direction.x, RayLength)),
           RAdd(origin.y, RMul(direction.y, RayLength))), p3, p4)

\* Squared distance from point to its projection on the segment, the
\* parameter clamped to [0, 1]  (t = max(0, min(1, ...))).
DistSqAt(point, seg_start, dx, dy, t) ==
    RAdd(RSq(RSub(point.x, RAdd(seg_start.x, RMul(t, dx)))),
         RSq(RSub(point.y, RAdd(seg_start.y, RMul(t, dy)))))

ClampedDistSq(point, seg_start, seg_end, dx, dy, length_sq) ==
    DistSqAt(point, seg_start, dx, dy,
        RMax(Zero, RMin(One,
            RDiv(RAdd(RMul(RSub(point.x, seg_start.x), dx),
                      RMul(RSub(point.y, seg_start.y), dy)), length_sq))))

\* dist < tolerance is decided on the squares (both sides are >= 0).
\* The bounding-range test of _point_on_segment.
in_segment_range(point, seg_start, seg_end, tolerance) ==
    /\ RLe(RSub(RMin(seg_start.x, seg_end.x), tolerance), point.x)
    /\ RLe(point.x, RAdd(RMax(seg_start.x, seg_end.x), tolerance))
    /\ RLe(RSub(RMin(seg_start.y, seg_end.y), tolerance), point.y)
    /\ RLe(point.y, RAdd(RMax(seg_start.y, seg_end.y), tolerance))

LengthSq(dx, dy) == RAdd(RSq(dx), RSq(dy))

near_segment(point, seg_start, seg_end, tolerance, dx, dy, length_sq) ==
    IF RLt(length_sq, One) THEN FALSE
    ELSE RLt(ClampedDistSq(point, seg_start, seg_end, dx, dy, length_sq),
             RSq(tolerance))

near_segment_d(point, seg_start, seg_end, tolerance, dx, dy) ==
    near_segment(point, seg_start, seg_end, tolerance, dx, dy, LengthSq(dx, dy))

point_on_segment(point, seg_start, seg_end, tolerance) ==
    IF ~in_segment_range(point, seg_start, seg_end, tolerance) THEN FALSE
    ELSE near_segment_d(point, seg_start, seg_end, tolerance,
             RSub(seg_end.x, seg_start.x), RSub(seg_end.y, seg_start.y))

\* The default of the tolerance parameter of _point_on_segment.
SegmentTolerance == <<5, 1>>

----------------------------------------------------------------------------
(* Line extension.                                                         *)

boundaries(left, top, right, bottom) ==
    << [start |-> Pt(left, top), end |-> Pt(right, top)],
       [start |-> Pt(right, top), end |-> Pt(right, bottom)],
       [start |-> Pt(right, bottom), end |-> Pt(left, bottom)],
       [start |-> Pt(left, bottom), end |-> Pt(left, top)] >>

\* Extension without the test for an endpoint that sits on an earlier line.
on_existing_never(p, existing_lines) == FALSE

on_existing(p, existing_lines) ==
    \E k \in 1..Len(existing_lines) :
        point_on_segment(p, existing_lines[k].start, existing_lines[k].end,
                         SegmentTolerance)

\* The choice among hits that keeps the farthest one.
keep_farther(hit, best) ==
    IF hit.ok /\ (~best.found \/ RLt(best.dist, hit.dist))
    THEN [found |-> TRUE, dist |-> hit.dist, pt |-> Pt(hit.x, hit.y)]
    ELSE best

\* The loop "for a, b in all_segments": best is [found, dist, pt]; a hit
\* replaces it only when strictly nearer, so the first nearest hit wins.
\* "if hit and hit['dist'] < min_dist": min_dist is inf until a hit is kept.
keep_nearer(hit, best) ==
    IF hit.ok /\ (~best.found \/ RLt(hit.dist, best.dist))
    THEN [found |-> TRUE, dist |-> hit.dist, pt |-> Pt(hit.x, hit.y)]
    ELSE best

RECURSIVE nearest_hit(_, _, _, _, _)
nearest_hit(origin, direction, segs, k, best) ==
    IF k > Len(segs) THEN best
    ELSE nearest_hit(origin, direction, segs, k + 1,
             keep_nearer(ray_segment_intersection(origin, direction,
                             segs[k].start, segs[k].end), best))

extend_endpoint(p, direction, all_segments, p_on_existing) ==
    IF p_on_existing THEN Pt(p.x, p.y)
    ELSE nearest_hit(p, direction, all_segments, 1,
                     [found |-> FALSE, dist |-> Zero, pt |-> Pt(p.x, p.y)]).pt

\* _extend_line once the unit direction and all_segments are known.
extend_both(p1, p2, dir, all_segments, existing_lines) ==
    [ok |-> TRUE,
     start |-> extend_endpoint(p1, Pt(RNeg(dir.x), RNeg(dir.y)),
                   all_segments, on_existing(p1, existing_lines)),
     end |-> extend_endpoint(p2, dir,
                   all_segments, on_existing(p2, existing_lines))]

unit_direction(dx, dy, length) == Pt(RDiv(dx, length), RDiv(dy, length))

\* The length test with the threshold 1/2 in place of 1.
extend_checked_half(p1, p2, dx, dy, length_sq, all_segments, existing_lines) ==
    IF RLt(length_sq, <<1, 4>>) THEN None
    ELSE extend_both(p1, p2, unit_direction(dx, dy, RSqrt(length_sq)),
                     all_segments, existing_lines)

\* length < 1 is decided on the square.
extend_checked(p1, p2, dx, dy, length_sq, all_segments, existing_lines) ==
    IF RLt(length_sq, One) THEN None
    ELSE extend_both(p1, p2, unit_direction(dx, dy, RSqrt(length_sq)),
                     all_segments, existing_lines)

extend_from(p1, p2, dx, dy, all_segments, existing_lines) ==
    extend_checked(p1, p2, dx, dy, LengthSq(dx, dy), all_segments, existing_lines)

extend_line(p1, p2, left, top, rect_w, rect_h, existing_lines) ==
    extend_from(p1, p2, RSub(p2.x, p1.x), RSub(p2.y, p1.y),
        boundaries(left, top, RAdd(left, rect_w), RAdd(top, rect_h)) \o existing_lines,
        existing_lines)

----------------------------------------------------------------------------
(* Polygon splitter.                                                       *)

\* No crossing point taken for a duplicate.
is_dup_never(hit, intersections) == FALSE

is_dup(hit, intersections) ==
    \E k \in 1..Len(intersections) :
        /\ RLt(RAbs(RSub(intersections[k].point.x, hit.x)), POINT_TOLERANCE)
        /\ RLt(RAbs(RSub(intersections[k].point.y, hit.y)), POINT_TOLERANCE)

Succ(i, n) == IF i = n THEN 1 ELSE i + 1

\* The first loop of _split_polygon; edge i runs from vertices[i] to its
\* successor (edges are numbered from 1 here, from 0 in the source).
add_intersection(acc, hit, i) ==
    IF hit.ok /\ ~is_dup(hit, acc)
    THEN Append(acc, [point |-> Pt(hit.x, hit.y), edge |-> i, t |-> hit.t])
    ELSE acc

RECURSIVE collect_intersections(_, _, _, _, _)
collect_intersections(vertices, line_start, line_end, i, acc) ==
    IF i > Len(vertices) THEN acc
    ELSE collect_intersections(vertices, line_start, line_end, i + 1,
             add_intersection(acc,
                 segment_intersection(vertices[i], vertices[Succ(i, Len(vertices))],
                                      line_start, line_end), i))

\* key (edge, t) of intersections.sort
KeyLt(a, b) == a.edge < b.edge \/ (a.edge = b.edge /\ RLt(a.t, b.t))

\* Stable insertion of x into the sorted sequence s.
RECURSIVE InsertByKey(_, _)
InsertByKey(s, x) ==
    IF s = <<>> THEN <<x>>
    ELSE IF KeyLt(x, s[Len(s)]) THEN Append(InsertByKey(SubSeq(s, 1, Len(s) - 1), x), s[Len(s)])
    ELSE Append(s, x)

RECURSIVE SortByKey(_)
SortByKey(s) ==
    IF s = <<>> THEN <<>>
    ELSE InsertByKey(SortByKey(SubSeq(s, 1, Len(s) - 1)), s[Len(s)])

\* The second loop of _split_polygon: st = [poly1, poly2, cur], cur being
\* the loop "current" refers to (1 or 2).
PushCur(st, p) ==
    IF st.cur = 1 THEN [st EXCEPT !.poly1 = Append(@, p)]
    ELSE [st EXCEPT !.poly2 = Append(@, p)]

AtInt1(st, i, int1) ==
    IF i = int1.edge
    THEN [PushCur(st, int1.point) EXCEPT !.cur = 2, !.poly2 = Append(@, int1.point)]
    ELSE st

\* The second crossing without the append of the point to poly1.
AtInt2_one_sided(st, i, int2) ==
    IF i = int2.edge /\ st.cur = 2
    THEN [PushCur(st, int2.point) EXCEPT !.cur = 1]
    ELSE st

AtInt2(st, i, int2) ==
    IF i = int2.edge /\ st.cur = 2
    THEN [PushCur(st, int2.point) EXCEPT !.cur = 1, !.poly1 = Append(@, int2.point)]
    ELSE st

RECURSIVE build_loops(_, _, _, _, _)
build_loops(vertices, int1, int2, i, st) ==
    IF i > Len(vertices) THEN st
    ELSE build_loops(vertices, int1, int2, i + 1,
             AtInt2(AtInt1(PushCur(st, Pt(vertices[i].x, vertices[i].y)), i, int1),
                    i, int2))

\* "return result if result else [vertices]"
result_or(split, vertices) == IF split # <<>> THEN split ELSE <<vertices>>

\* The loops of at least 3 vertices, poly1 first.
kept_loops(st) ==
    (IF Len(st.poly1) >= 3 THEN <<st.poly1>> ELSE <<>>)
    \o (IF Len(st.poly2) >= 3 THEN <<st.poly2>> ELSE <<>>)

split_at(vertices, intersections) ==
    result_or(kept_loops(build_loops(vertices, intersections[1], intersections[2], 1,
                                     [poly1 |-> <<>>, poly2 |-> <<>>, cur |-> 1])),
              vertices)

split_found(vertices, found) ==
    IF Len(found) < 2 THEN <<vertices>> ELSE split_at(vertices, SortByKey(found))

split_polygon(vertices, line_start, line_end) ==
    split_found(vertices, collect_intersections(vertices, line_start, line_end, 1, <<>>))

\* Twice the signed shoelace sum of poly.
RECURSIVE shoelace(_, _)
shoelace(poly, i) ==
    IF i > Len(poly) THEN Zero
    ELSE LET j == Succ(i, Len(poly))
         IN  RAdd(RSub(RMul(poly[i].x, poly[j].y), RMul(poly[j].x, poly[i].y)),
                  shoelace(poly, i + 1))

calc_area(poly) == RAbs(RDiv(shoelace(poly, 1), <<2, 1>>))

----------------------------------------------------------------------------
(* Gutter applicator.                                                      *)

\* line_tolerance of _apply_gutters, passed on as tolerance.
LineTolerance == <<5, 1>>

\* The square of _point_to_line_distance (its callers compare the distance,
\* which is >= 0, against a tolerance; the model compares the squares).
distance_sq_len(point, line_start, line_end, dx, dy, length_sq) ==
    IF RLt(length_sq, One)
    THEN RAdd(RSq(RSub(point.x, line_start.x)), RSq(RSub(point.y, line_start.y)))
    ELSE ClampedDistSq(point, line_start, line_end, dx, dy, length_sq)

distance_sq_d(point, line_start, line_end, dx, dy) ==
    distance_sq_len(point, line_start, line_end, dx, dy, LengthSq(dx, dy))

point_to_line_distance_sq(point, line_start, line_end) ==
    distance_sq_d(point, line_start, line_end,
        RSub(line_end.x, line_start.x), RSub(line_end.y, line_start.y))

edge_on_line(v1, v2, ext_line) ==
    /\ RLt(point_to_line_distance_sq(v1, ext_line.start, ext_line.end), RSq(LineTolerance))
    /\ RLt(point_to_line_distance_sq(v2, ext_line.start, ext_line.end), RSq(LineTolerance))

\* The gutter the loop of _apply_gutters reads for extended_lines[i]: the
\* one of dividers[i], the divider at the same list position.
gutter_of(dividers, i) == dividers[i].gutter_width

\* The edge offset taken as the whole gutter width.
offset_with_full_gutter(v1, v2, ext_line, half_gutter, acc) ==
    IF RLt(Zero, half_gutter) /\ edge_on_line(v1, v2, ext_line)
    THEN RMax(acc, RMul(<<2, 1>>, half_gutter))
    ELSE acc

\* edge_offsets[edge_idx] after the loop over extended_lines[i .. ], from
\* the value acc (the loop breaks at i >= len(dividers)).
\* half_gutter <= 0: continue; else max(edge_offsets[edge_idx], half_gutter)
\* when the edge lies on the line.
offset_with(v1, v2, ext_line, half_gutter, acc) ==
    IF RLt(Zero, half_gutter) /\ edge_on_line(v1, v2, ext_line)
    THEN RMax(acc, half_gutter)
    ELSE acc

RECURSIVE edge_offset(_, _, _, _, _, _)
edge_offset(v1, v2, lines, divs, i, acc) ==
    IF i > Len(lines) \/ i > Len(divs) THEN acc
    ELSE edge_offset(v1, v2, lines, divs, i + 1,
             offset_with(v1, v2, lines[i], RDiv(gutter_of(divs, i), <<2, 1>>), acc))

edge_offsets(vertices, lines, divs) ==
    [e \in 1..Len(vertices) |->
        edge_offset(vertices[e], vertices[Succ(e, Len(vertices))], lines, divs, 1, Zero)]

edge_on_boundary(v1, v2, left, top, right, bottom, tolerance) ==
    \/ RLt(RAbs(RSub(v1.x, left)), tolerance) /\ RLt(RAbs(RSub(v2.x, left)), tolerance)
    \/ RLt(RAbs(RSub(v1.x, right)), tolerance) /\ RLt(RAbs(RSub(v2.x, right)), tolerance)
    \/ RLt(RAbs(RSub(v1.y, top)), tolerance) /\ RLt(RAbs(RSub(v2.y, top)), tolerance)
    \/ RLt(RAbs(RSub(v1.y, bottom)), tolerance) /\ RLt(RAbs(RSub(v2.y, bottom)), tolerance)

line_point(p1, p2, t) ==
    [ok |-> TRUE,
     x |-> RAdd(p1.x, RMul(t, RSub(p2.x, p1.x))),
     y |-> RAdd(p1.y, RMul(t, RSub(p2.y, p1.y)))]

\* abs(denom) < 1e-10: None.
line_solve(p1, p2, p3, p4, denom) ==
    IF AbsLtEpsilon(denom) THEN None
    ELSE line_point(p1, p2, ParamT(p1.x, p1.y, p3.x, p3.y, p4.x, p4.y, denom))

line_intersection(p1, p2, p3, p4) ==
    line_solve(p1, p2, p3, p4, Denom(p1.x, p1.y, p2.x, p2.y, p3.x, p3.y, p4.x, p4.y))

RECURSIVE SumX(_, _)
SumX(vertices, i) ==
    IF i > Len(vertices) THEN Zero ELSE RAdd(vertices[i].x, SumX(vertices, i + 1))

RECURSIVE SumY(_, _)
SumY(vertices, i) ==
    IF i > Len(vertices) THEN Zero ELSE RAdd(vertices[i].y, SumY(vertices, i + 1))

\* length < 0.001, on the squares.
MinEdgeLengthSq == <<1, 1000000>>

\* The edge moved by offset along the normal (nx, ny), unless it lies on
\* the page boundary.
moved_edge(v1, v2, nx, ny, offset, page, tolerance) ==
    IF edge_on_boundary(v1, v2, page.left, page.top, page.right, page.bottom, tolerance)
    THEN <<v1, v2>>
    ELSE << Pt(RAdd(v1.x, RMul(nx, offset)), RAdd(v1.y, RMul(ny, offset))),
            Pt(RAdd(v2.x, RMul(nx, offset)), RAdd(v2.y, RMul(ny, offset))) >>

\* "if dot < 0: nx = -nx; ny = -ny"
facing_centre(v1, v2, nx, ny, dot, offset, page, tolerance) ==
    IF RLt(dot, Zero)
    THEN moved_edge(v1, v2, RNeg(nx), RNeg(ny), offset, page, tolerance)
    ELSE moved_edge(v1, v2, nx, ny, offset, page, tolerance)

\* dot of the normal with the vector from the edge midpoint to the centroid.
with_normal(v1, v2, nx, ny, cx, cy, offset, page, tolerance) ==
    facing_centre(v1, v2, nx, ny,
        RAdd(RMul(nx, RSub(cx, RDiv(RAdd(v1.x, v2.x), <<2, 1>>))),
             RMul(ny, RSub(cy, RDiv(RAdd(v1.y, v2.y), <<2, 1>>)))),
        offset, page, tolerance)

with_length(v1, v2, dx, dy, length, cx, cy, offset, page, tolerance) ==
    with_normal(v1, v2, RDiv(RNeg(dy), length), RDiv(dx, length), cx, cy,
                offset, page, tolerance)

\* length < 0.001 (on the squares): the edge is kept as it is.
with_length_sq(v1, v2, dx, dy, length_sq, cx, cy, offset, page, tolerance) ==
    IF RLt(length_sq, MinEdgeLengthSq) THEN <<v1, v2>>
    ELSE with_length(v1, v2, dx, dy, RSqrt(length_sq), cx, cy, offset, page, tolerance)

with_direction(v1, v2, dx, dy, cx, cy, offset, page, tolerance) ==
    with_length_sq(v1, v2, dx, dy, LengthSq(dx, dy), cx, cy, offset, page, tolerance)

\* The offset line of the edge from v1 to v2: its two points.  (cx, cy) is
\* the vertex average of the polygon.
offset_line(v1, v2, cx, cy, offset, page, tolerance) ==
    with_direction(v1, v2, RSub(v2.x, v1.x), RSub(v2.y, v1.y), cx, cy,
                   offset, page, tolerance)

Pred(i, n) == IF i = 1 THEN n ELSE i - 1

\* A new vertex: the intersection of the two offset lines, or the old vertex.
vertex_or(intersection, v) ==
    IF intersection.ok THEN Pt(intersection.x, intersection.y) ELSE Pt(v.x, v.y)

new_vertex(prev_line, curr_line, v) ==
    vertex_or(line_intersection(prev_line[1], prev_line[2], curr_line[1], curr_line[2]), v)

new_vertices(vertices, offset_lines) ==
    [i \in 1..Len(vertices) |->
        new_vertex(offset_lines[Pred(i, Len(vertices))], offset_lines[i], vertices[i])]

offset_lines_of(vertices, offsets, cx, cy, page, tolerance) ==
    [i \in 1..Len(vertices) |->
        offset_line(vertices[i], vertices[Succ(i, Len(vertices))], cx, cy,
                    offsets[i], page, tolerance)]

offset_polygon_edges(vertices, offsets, page, tolerance) ==
    IF Len(vertices) < 3 THEN vertices
    ELSE new_vertices(vertices,
             offset_lines_of(vertices, offsets,
                 RDiv(SumX(vertices, 1), R(Len(vertices))),
                 RDiv(SumY(vertices, 1), R(Len(vertices))), page, tolerance))

apply_gutters(panels, extended_lines, dividers, page) ==
    [k \in 1..Len(panels) |->
        IF Len(panels[k]) < 3 THEN panels[k]
        ELSE offset_polygon_edges(panels[k],
                 edge_offsets(panels[k], extended_lines, dividers),
                 page, LineTolerance)]

----------------------------------------------------------------------------
(* Reading-order sorter (QPolygonF.boundingRect and QRectF.center are the  *)
(* Qt operations the source calls).                                        *)

RECURSIVE MinOf(_, _, _)
MinOf(f, i, n) == IF i = n THEN f[i] ELSE RMin(f[i], MinOf(f, i + 1, n))

RECURSIVE MaxOf(_, _, _)
MaxOf(f, i, n) == IF i = n THEN f[i] ELSE RMax(f[i], MaxOf(f, i + 1, n))

\* QPolygonF.boundingRect(): the extent of the points.
Xs(panel) == [i \in 1..Len(panel) |-> panel[i].x]

Ys(panel) == [i \in 1..Len(panel) |-> panel[i].y]

boundingRect(panel) ==
    IF panel = <<>> THEN [left |-> Zero, top |-> Zero, right |-> Zero, bottom |-> Zero]
    ELSE [left |-> MinOf(Xs(panel), 1, Len(panel)), top |-> MinOf(Ys(panel), 1, Len(panel)),
          right |-> MaxOf(Xs(panel), 1, Len(panel)), bottom |-> MaxOf(Ys(panel), 1, Len(panel))]

\* QRectF.center(): (x + w / 2, y + h / 2).
center_x(rect) == RAdd(rect.left, RDiv(RSub(rect.right, rect.left), <<2, 1>>))

center_y(rect) == RAdd(rect.top, RDiv(RSub(rect.bottom, rect.top), <<2, 1>>))

panel_datum(i, panel, rect) ==
    [index |-> i, panel |-> panel, cx |-> center_x(rect), cy |-> center_y(rect),
     top |-> rect.top, bottom |-> rect.bottom]

panel_data(panels) ==
    [i \in 1..Len(panels) |-> panel_datum(i, panels[i], boundingRect(panels[i]))]

\* sorted(panel_data, key = top): stable insertion sort.
RECURSIVE InsertByTop(_, _)
InsertByTop(s, x) ==
    IF s = <<>> THEN <<x>>
    ELSE IF RLt(x.top, s[Len(s)].top)
         THEN Append(InsertByTop(SubSeq(s, 1, Len(s) - 1), x), s[Len(s)])
    ELSE Append(s, x)

RECURSIVE SortByTop(_)
SortByTop(s) ==
    IF s = <<>> THEN <<>>
    ELSE InsertByTop(SortByTop(SubSeq(s, 1, Len(s) - 1)), s[Len(s)])

\* The row sort with key cx in place of -cx.
RECURSIVE InsertByCxAsc(_, _)
InsertByCxAsc(s, x) ==
    IF s = <<>> THEN <<x>>
    ELSE IF RLt(x.cx, s[Len(s)].cx)
         THEN Append(InsertByCxAsc(SubSeq(s, 1, Len(s) - 1), x), s[Len(s)])
    ELSE Append(s, x)

\* sorted(row, key = -cx): stable, descending cx.
RECURSIVE InsertByCxDesc(_, _)
InsertByCxDesc(s, x) ==
    IF s = <<>> THEN <<x>>
    ELSE IF RLt(s[Len(s)].cx, x.cx)
         THEN Append(InsertByCxDesc(SubSeq(s, 1, Len(s) - 1), x), s[Len(s)])
    ELSE Append(s, x)

RECURSIVE SortByCxDesc(_)
SortByCxDesc(s) ==
    IF s = <<>> THEN <<>>
    ELSE InsertByCxDesc(SortByCxDesc(SubSeq(s, 1, Len(s) - 1)), s[Len(s)])

\* The factor of the comment in the source ("30%") in place of 0.4.
RowToleranceThirty == <<3, 10>>

\* height * 0.4
RowToleranceFactor == <<2, 5>>

in_row(p, other) ==
    RLt(RAbs(RSub(other.cy, p.cy)), RMul(RSub(p.bottom, p.top), RowToleranceFactor))

\* The inner loop that takes a panel into the row without marking it used.
take_other_unmarked(p, other, st) ==
    IF other.index \notin st.used /\ in_row(p, other)
    THEN [row |-> Append(st.row, other), used |-> st.used]
    ELSE st

\* The inner loop "for other in sorted_by_top": st = [row, used].
take_other(p, other, st) ==
    IF other.index \notin st.used /\ in_row(p, other)
    THEN [row |-> Append(st.row, other), used |-> st.used \cup {other.index}]
    ELSE st

RECURSIVE gather_row(_, _, _, _)
gather_row(p, sorted_by_top, j, st) ==
    IF j > Len(sorted_by_top) THEN st
    ELSE gather_row(p, sorted_by_top, j + 1, take_other(p, sorted_by_top[j], st))

add_row(rows, g) == [rows |-> Append(rows, g.row), used |-> g.used]

\* "if used[p['index']]: continue", else a new row seeded by p.
seed_row(p, sorted_by_top, st) ==
    IF p.index \in st.used THEN st
    ELSE add_row(st.rows, gather_row(p, sorted_by_top, 1,
                     [row |-> <<p>>, used |-> st.used \cup {p.index}]))

\* The outer loop "for p in sorted_by_top": st = [rows, used].
RECURSIVE group_rows(_, _, _)
group_rows(sorted_by_top, i, st) ==
    IF i > Len(sorted_by_top) THEN st.rows
    ELSE group_rows(sorted_by_top, i + 1, seed_row(sorted_by_top[i], sorted_by_top, st))

panels_of(row_sorted) == [i \in 1..Len(row_sorted) |-> row_sorted[i].panel]

RECURSIVE emit_rows(_, _)
emit_rows(rows, k) ==
    IF k > Len(rows) THEN <<>>
    ELSE panels_of(SortByCxDesc(rows[k])) \o emit_rows(rows, k + 1)

rows_of(sorted_by_top) == group_rows(sorted_by_top, 1, [rows |-> <<>>, used |-> {}])

\* The panels returned in the order they were given.
sort_not_at_all(panels) == panels

sort_panels_manga_order(panels) ==
    IF Len(panels) <= 1 THEN panels
    ELSE emit_rows(rows_of(SortByTop(panel_data(panels))), 1)

----------------------------------------------------------------------------
(* Point query.  QPolygonF.containsPoint(point, OddEvenFill) is Qt's: the  *)
(* winding number over the edges (the closing edge included), each edge    *)
(* half-open in y and horizontal edges ignored, taken modulo 2.            *)

\* The edge from a up to b (a.y < b.y), counted dir when the scan line of
\* pos meets it at or left of pos.
isect_up(a, b, pos, dir) ==
    IF RLe(a.y, pos.y) /\ RLt(pos.y, b.y)
       /\ RLe(RAdd(a.x, RMul(RDiv(RSub(b.x, a.x), RSub(b.y, a.y)), RSub(pos.y, a.y))),
              pos.x)
    THEN dir
    ELSE 0

isect_line(p1, p2, pos) ==
    IF p1.y = p2.y THEN 0
    ELSE IF RLt(p2.y, p1.y) THEN isect_up(p2, p1, pos, -1)
    ELSE isect_up(p1, p2, pos, 1)

RECURSIVE winding(_, _, _)
winding(panel, pos, i) ==
    IF i > Len(panel) THEN 0
    ELSE isect_line(panel[i], panel[Succ(i, Len(panel))], pos) + winding(panel, pos, i + 1)

containsPoint(panel, pos) ==
    IF panel = <<>> THEN FALSE ELSE winding(panel, pos, 1) % 2 # 0

\* The query loop without the early return: the last containing panel wins.
RECURSIVE panel_at_last(_, _, _)
panel_at_last(panels, point, i) ==
    IF i > Len(panels) THEN -1
    ELSE IF panel_at_last(panels, point, i + 1) # -1
         THEN panel_at_last(panels, point, i + 1)
    ELSE IF containsPoint(panels[i], point) THEN i - 1
    ELSE -1

\* The loop of get_panel_at_point from index i on; -1 when it runs out.
\* Indices are those of the source (from 0).
RECURSIVE panel_at_from(_, _, _)
panel_at_from(panels, point, i) ==
    IF i > Len(panels) THEN -1
    ELSE IF containsPoint(panels[i], point) THEN i - 1
    ELSE panel_at_from(panels, point, i + 1)

get_panel_at_point(panels, point) == panel_at_from(panels, point, 1)

----------------------------------------------------------------------------
(* calculate_panels, stage by stage.                                       *)

\* left, top, right, bottom, rect_w, rect_h of calculate_panels.
usable(w, h, m) ==
    [left |-> m, top |-> m, right |-> RSub(w, m), bottom |-> RSub(h, m),
     rect_w |-> RSub(RSub(w, m), m), rect_h |-> RSub(RSub(h, m), m)]

\* The dimension test with < in place of <=.
invalid_dimensions_strict(w, h, m) ==
    RLt(usable(w, h, m).rect_w, Zero) \/ RLt(usable(w, h, m).rect_h, Zero)

invalid_dimensions(w, h, m) ==
    RLe(usable(w, h, m).rect_w, Zero) \/ RLe(usable(w, h, m).rect_h, Zero)

\* The rectangle with rect_w, rect_h used as the right and bottom coordinates.
rect_poly_from_origin(u) ==
    << Pt(u.left, u.top), Pt(u.rect_w, u.top), Pt(u.rect_w, u.rect_h), Pt(u.left, u.rect_h) >>

rect_poly(u) ==
    << Pt(u.left, u.top), Pt(u.right, u.top), Pt(u.right, u.bottom), Pt(u.left, u.bottom) >>

initial_poly(w, h, m) == rect_poly(usable(w, h, m))

\* _extend_line on the raw endpoints of divider.
extend_divider(divider, u, lines) ==
    extend_line(Pt(divider.x1, divider.y1), Pt(divider.x2, divider.y2),
                u.left, u.top, u.rect_w, u.rect_h, lines)

\* The split loop stopping at the first polygon the line cuts.
RECURSIVE split_all_first(_, _, _, _)
split_all_first(polys, line_start, line_end, k) ==
    IF k > Len(polys) THEN <<>>
    ELSE IF Len(split_polygon(polys[k], line_start, line_end)) > 1
         THEN split_polygon(polys[k], line_start, line_end)
              \o SubSeq(polys, k + 1, Len(polys))
    ELSE <<polys[k]>> \o split_all_first(polys, line_start, line_end, k + 1)

\* new_polygons: every polygon replaced by its split result, in order.
RECURSIVE split_all(_, _, _, _)
split_all(polys, line_start, line_end, k) ==
    IF k > Len(polys) THEN <<>>
    ELSE split_polygon(polys[k], line_start, line_end)
         \o split_all(polys, line_start, line_end, k + 1)

\* The result list before gutters: the polygons of area > MIN_AREA.
RECURSIVE filter_area(_, _)
filter_area(polys, k) ==
    IF k > Len(polys) THEN <<>>
    ELSE (IF RLt(MIN_AREA, calc_area(polys[k])) THEN <<polys[k]>> ELSE <<>>)
         \o filter_area(polys, k + 1)

\* One iteration of "for divider in dividers" on st = [polygons, lines].
\* "if not extended: continue", else the line is kept and every polygon split.
step_with(extended, st) ==
    IF ~extended.ok THEN st
    ELSE [polygons |-> split_all(st.polygons, extended.start, extended.end, 1),
          lines |-> Append(st.lines, [start |-> extended.start, end |-> extended.end])]

divider_step(divider, u, st) == step_with(extend_divider(divider, u, st.lines), st)

RECURSIVE divider_loop(_, _, _, _)
divider_loop(divs, u, k, st) ==
    IF k > Len(divs) THEN st
    ELSE divider_loop(divs, u, k + 1, divider_step(divs[k], u, st))

gutter_stage(panels, lines, divs, u) ==
    IF divs # <<>> /\ lines # <<>> THEN apply_gutters(panels, lines, divs, u) ELSE panels

\* The whole of calculate_panels as one function of its arguments.
finish(st, divs, u) ==
    sort_panels_manga_order(gutter_stage(filter_area(st.polygons, 1), st.lines, divs, u))

calculate_panels(w, h, divs, m) ==
    IF invalid_dimensions(w, h, m) THEN <<>>
    ELSE IF divs = <<>> THEN <<initial_poly(w, h, m)>>
    ELSE finish(divider_loop(divs, usable(w, h, m), 1,
                    [polygons |-> <<initial_poly(w, h, m)>>, lines |-> <<>>]),
                divs, usable(w, h, m))

----------------------------------------------------------------------------
(* Inputs.                                                                 *)

Divider(x1, y1, x2, y2, g) ==
    [x1 |-> R(x1), y1 |-> R(y1), x2 |-> R(x2), y2 |-> R(y2), gutter_width |-> R(g)]

Input(w, h, m, divs) == [width |-> R(w), height |-> R(h), margin |-> R(m), dividers |-> divs]

----------------------------------------------------------------------------
(* The program as a state machine: one call of calculate_panels on the     *)
(* chosen input, followed by point queries on the returned list.           *)

VARIABLES width, height, margin, dividers, pc, idx, polygons, extended_lines,
          result, steps, query

vars == <<width, height, margin, dividers, pc, idx, polygons, extended_lines,
          result, steps, query>>

inputs == <<width, height, margin, dividers>>

NoQuery == [asked |-> FALSE]

InitWith(S) ==
    /\ \E in \in S :
          /\ width = in.width
          /\ height = in.height
          /\ margin = in.margin
          /\ dividers = in.dividers
    /\ pc = "start"
    /\ idx = 0
    /\ polygons = <<>>
    /\ extended_lines = <<>>
    /\ result = <<>>
    /\ steps = {}
    /\ query = NoQuery

\* rect_w <= 0 or rect_h <= 0: return [].
ReturnEmpty ==
    /\ pc = "start"
    /\ invalid_dimensions(width, height, margin)
    /\ result' = <<>>
    /\ pc' = "done"
    /\ UNCHANGED <<inputs, idx, polygons, extended_lines, steps, query>>

\* not dividers: return the initial polygon alone.
ReturnInitial ==
    /\ pc = "start"
    /\ ~invalid_dimensions(width, height, margin)
    /\ dividers = <<>>
    /\ polygons' = <<initial_poly(width, height, margin)>>
    /\ result' = <<initial_poly(width, height, margin)>>
    /\ pc' = "done"
    /\ UNCHANGED <<inputs, idx, extended_lines, steps, query>>

BeginLoop ==
    /\ pc = "start"
    /\ ~invalid_dimensions(width, height, margin)
    /\ dividers # <<>>
    /\ polygons' = <<initial_poly(width, height, margin)>>
    /\ extended_lines' = <<>>
    /\ idx' = 1
    /\ pc' = "loop"
    /\ UNCHANGED <<inputs, result, steps, query>>

\* The body of the loop for an extended line that is not None.
SplitWith(extended) ==
    /\ extended.ok
    /\ polygons' = split_all(polygons, extended.start, extended.end, 1)
    /\ extended_lines' = Append(extended_lines,
                                [start |-> extended.start, end |-> extended.end])

\* The skip of a divider that also removes it from the caller's list.
SkipDividerRemoving ==
    /\ pc = "loop"
    /\ idx <= Len(dividers)
    /\ ~extend_divider(dividers[idx], usable(width, height, margin), extended_lines).ok
    /\ dividers' = SubSeq(dividers, 1, idx - 1) \o SubSeq(dividers, idx + 1, Len(dividers))
    /\ steps' = steps \cup {"extend"}
    /\ UNCHANGED <<width, height, margin, pc, idx, polygons, extended_lines, result, query>>

\* _extend_line returned None: continue.
SkipDivider ==
    /\ pc = "loop"
    /\ idx <= Len(dividers)
    /\ ~extend_divider(dividers[idx], usable(width, height, margin), extended_lines).ok
    /\ idx' = idx + 1
    /\ steps' = steps \cup {"extend"}
    /\ UNCHANGED <<inputs, pc, polygons, extended_lines, result, query>>

\* The raw segments of the dividers after position k.
RawAfter(divs, k) ==
    [ i \in 1..(Len(divs) - k) |->
        [start |-> Pt(divs[k + i].x1, divs[k + i].y1),
         end |-> Pt(divs[k + i].x2, divs[k + i].y2)] ]

\* The loop body with the later dividers among the extension candidates.
SplitByDividerAhead ==
    /\ pc = "loop"
    /\ idx <= Len(dividers)
    /\ SplitWith(extend_divider(dividers[idx], usable(width, height, margin),
                                extended_lines \o RawAfter(dividers, idx)))
    /\ idx' = idx + 1
    /\ steps' = steps \cup {"extend", "split"}
    /\ UNCHANGED <<inputs, pc, result, query>>

SplitByDivider ==
    /\ pc = "loop"
    /\ idx <= Len(dividers)
    /\ SplitWith(extend_divider(dividers[idx], usable(width, height, margin),
                                extended_lines))
    /\ idx' = idx + 1
    /\ steps' = steps \cup {"extend", "split"}
    /\ UNCHANGED <<inputs, pc, result, query>>

FilterArea ==
    /\ pc = "loop"
    /\ idx > Len(dividers)
    /\ result' = filter_area(polygons, 1)
    /\ steps' = steps \cup {"filter"}
    /\ pc' = "gutter"
    /\ UNCHANGED <<inputs, idx, polygons, extended_lines, query>>

ApplyGutters ==
    /\ pc = "gutter"
    /\ dividers # <<>> /\ extended_lines # <<>>
    /\ result' = apply_gutters(result, extended_lines, dividers,
                               usable(width, height, margin))
    /\ steps' = steps \cup {"gutter"}
    /\ pc' = "sort"
    /\ UNCHANGED <<inputs, idx, polygons, extended_lines, query>>

SkipGutters ==
    /\ pc = "gutter"
    /\ ~(dividers # <<>> /\ extended_lines # <<>>)
    /\ pc' = "sort"
    /\ UNCHANGED <<inputs, idx, polygons, extended_lines, result, steps, query>>

SortPanels ==
    /\ pc = "sort"
    /\ result' = sort_panels_manga_order(result)
    /\ steps' = steps \cup {"sort"}
    /\ pc' = "done"
    /\ UNCHANGED <<inputs, idx, polygons, extended_lines, query>>

\* Bounds of the point queries.
QueryXs == {10, 250, 495, 520, 750}

QueryYs == {10, 350, 1050}

\* get_panel_at_point on the returned list.
Query ==
    /\ pc = "done"
    /\ \E x \in QueryXs, y \in QueryYs :
          query' = [asked |-> TRUE, point |-> IPt(x, y),
                    index |-> get_panel_at_point(result, IPt(x, y))]
    /\ pc' = "queried"
    /\ UNCHANGED <<inputs, idx, polygons, extended_lines, result, steps>>

Next ==
    \/ ReturnEmpty
    \/ ReturnInitial
    \/ BeginLoop
    \/ SkipDivider
    \/ SplitByDivider
    \/ FilterArea
    \/ ApplyGutters
    \/ SkipGutters
    \/ SortPanels
    \/ Query

----------------------------------------------------------------------------
(* The inputs of the runs.                                                 *)

\* Pages (width, height, margin) with a usable rectangle.
Pages == { <<1000, 1400, 0>>, <<1000, 1400, 50>> }

\* Pages whose usable width or height is zero or negative.
MarginPages == { <<100, 100, 60>>, <<0, 0, 0>>, <<100, 140, 50>> }

\* Full-span lines of the usable rectangle of page pg.
Vertical(pg, x, g) == Divider(x, pg[3], x, pg[2] - pg[3], g)

Horizontal(pg, y, g) == Divider(pg[3], y, pg[1] - pg[3], y, g)

\* A vertical from (x, y) down to the bottom boundary.
Tee(pg, x, y) == Divider(x, y, x, pg[2] - pg[3], 0)

\* The horizontal half a unit above the bottom boundary, and the vertical
\* from a point of it down to the boundary.
HalfHorizontal(pg) ==
    [x1 |-> R(pg[3]), y1 |-> Norm(2 * (pg[2] - pg[3]) - 1, 2),
     x2 |-> R(pg[1] - pg[3]), y2 |-> Norm(2 * (pg[2] - pg[3]) - 1, 2),
     gutter_width |-> Zero]

HalfTee(pg, x) ==
    [x1 |-> R(x), y1 |-> Norm(2 * (pg[2] - pg[3]) - 1, 2),
     x2 |-> R(x), y2 |-> R(pg[2] - pg[3]), gutter_width |-> Zero]

\* Dividers drawn on a page: lines in the middle, half a unit, one unit and
\* three units from the boundary, with and without gutters, and a
\* zero-length one.
PoolOf(pg) ==
    { Vertical(pg, 500, g) : g \in {0, 20, 100} }
    \cup { Vertical(pg, x, 0) : x \in {510, pg[3] + 1, pg[3] + 3, pg[1] - pg[3] - 1} }
    \cup { Horizontal(pg, 700, g) : g \in {0, 20} }
    \cup { Horizontal(pg, y, 0) : y \in {pg[3] + 1, pg[2] - pg[3] - 1} }
    \cup { Tee(pg, 500, 700), Tee(pg, pg[3] + 1, pg[2] - pg[3] - 1),
           Divider(300, 300, 300, 300, 20), HalfHorizontal(pg), HalfTee(pg, 500) }

\* A horizontal drawn from page edge to page edge, across the margins.
PageHorizontal(pg, y) == Divider(0, y, pg[1], y, 0)

\* A short horizontal in the middle of the page.
Short(y) == Divider(400, y, 600, y, 0)

\* A horizontal from the middle of the page to the right boundary.
HalfWidth(pg, y, g) == Divider(500, y, pg[1] - pg[3], y, g)

\* A 3-4-5 diagonal from the top-left corner of the usable rectangle.
Diagonal(pg) == Divider(pg[3], pg[3], pg[3] + 300, pg[3] + 400, 0)

\* Further lists: a wide gutter six units from the boundary, verticals that
\* start three units off a horizontal, a line between two parallel lines,
\* raw endpoints in the margin, diagonal cuts, a horizontal that ends on a
\* vertical, with and without a gutter, and a line repeated after a
\* zero-length divider.
ExtraLists(pg) ==
    { << Vertical(pg, pg[3] + 6, 100) >>,
      << Horizontal(pg, 700, 0), Tee(pg, 500, 703) >>,
      << Horizontal(pg, 700, 0), Tee(pg, 500, 697) >>,
      << PageHorizontal(pg, 700) >>,
      << Vertical(pg, 300, 0), Vertical(pg, 700, 0), Short(700) >>,
      << Vertical(pg, 300, 0), Short(700), Vertical(pg, 700, 0) >>,
      << Short(700), Vertical(pg, 300, 0), Vertical(pg, 700, 0) >>,
      << Diagonal(pg) >>,
      << Diagonal(pg), Vertical(pg, 500, 0) >>,
      << Horizontal(pg, 700, 0), Diagonal(pg) >>,
      << Vertical(pg, 500, 20), Diagonal(pg) >>,
      << Vertical(pg, 500, 0), HalfWidth(pg, 1100, 0) >>,
      << Vertical(pg, 500, 0), HalfWidth(pg, 1100, 100) >>,
      << Horizontal(pg, 700, 0), Divider(300, 300, 300, 300, 20), Horizontal(pg, 700, 0) >> }

\* The page of 300 x 400 whose diagonal has length 500.
DiagonalPage == <<300, 400, 0>>

\* Its diagonal from corner to opposite corner, the other diagonal, and a
\* slanted line from the top boundary that stays clear of the corners.
CornerToCorner(g) == Divider(0, 0, 300, 400, g)

OtherDiagonal(g) == Divider(0, 400, 300, 0, g)

Slanted(g) == Divider(75, 0, 225, 200, g)

DiagonalLists ==
    { << CornerToCorner(g) >> : g \in {0, 20} }
    \cup { << OtherDiagonal(20) >>, << Slanted(20) >>, << Vertical(DiagonalPage, 150, 20) >> }

MarginPool == { Divider(50, 0, 50, 100, 20), Divider(30, 30, 30, 30, 20) }

\* Zero-gutter full-span lines for grids on the page of the tests.
GridPage == <<1000, 1400, 0>>

GridPool ==
    { Vertical(GridPage, x, 0) : x \in {1, 2, 500} }
    \cup { Horizontal(GridPage, y, 0) : y \in {1, 700} }

MaxDividers == 2

MaxGridLines == 3

SeqsUpTo(S, n) == UNION { [1..k -> S] : k \in 0..n }

Distinct(s) == \A i \in DOMAIN s, j \in DOMAIN s : s[i] = s[j] => i = j

InputsOn(pg, lists) == { Input(pg[1], pg[2], pg[3], ds) : ds \in lists }

Inputs ==
    UNION { InputsOn(pg, SeqsUpTo(PoolOf(pg), MaxDividers)) : pg \in Pages }
    \cup UNION { InputsOn(pg, ExtraLists(pg)) : pg \in Pages }
    \cup UNION { InputsOn(pg, SeqsUpTo(MarginPool, MaxDividers)) : pg \in MarginPages }
    \cup InputsOn(GridPage, { s \in SeqsUpTo(GridPool, MaxGridLines) : Distinct(s) })
    \cup InputsOn(DiagonalPage, DiagonalLists)

Init == InitWith(Inputs)

Spec == Init /\ [][Next]_vars

----------------------------------------------------------------------------
(* Properties of the returned list.                                        *)

\* calculate_panels has returned.
Returned == pc \in {"done", "queried"}

\* width - 2*margin and height - 2*margin.
usable_width == RSub(width, RMul(<<2, 1>>, margin))

usable_height == RSub(height, RMul(<<2, 1>>, margin))

PositiveUsable == RLt(Zero, usable_width) /\ RLt(Zero, usable_height)

Least(S) == CHOOSE a \in S : \A b \in S : RLe(a, b)

Greatest(S) == CHOOSE a \in S : \A b \in S : RLe(b, a)

\* d is a vertical line from one horizontal boundary of the usable rectangle
\* u to the other, strictly inside it; likewise a horizontal line.
IsVertical(d, u) ==
    /\ d.x1 = d.x2
    /\ {d.y1, d.y2} = {u.top, u.bottom}
    /\ RLt(u.left, d.x1) /\ RLt(d.x1, u.right)

IsHorizontal(d, u) ==
    /\ d.y1 = d.y2
    /\ {d.x1, d.x2} = {u.left, u.right}
    /\ RLt(u.top, d.y1) /\ RLt(d.y1, u.bottom)

VerticalXs(divs, u) == { divs[i].x1 : i \in { k \in DOMAIN divs : IsVertical(divs[k], u) } }

HorizontalYs(divs, u) == { divs[i].y1 : i \in { k \in DOMAIN divs : IsHorizontal(divs[k], u) } }

\* A grid: zero-gutter full-span lines at distinct coordinates.
IsGridLine(d, u) ==
    /\ d.gutter_width = Zero
    /\ IsVertical(d, u) \/ IsHorizontal(d, u)

\* Every coordinate of every divider is an integer.
IntegerLines(divs) ==
    \A i \in DOMAIN divs :
        divs[i].x1[2] = 1 /\ divs[i].y1[2] = 1 /\ divs[i].x2[2] = 1 /\ divs[i].y2[2] = 1

IsGrid(divs, u) ==
    /\ \A i \in DOMAIN divs : IsGridLine(divs[i], u)
    /\ Cardinality(VerticalXs(divs, u)) + Cardinality(HorizontalYs(divs, u)) = Len(divs)

\* The area of the smallest cell the lines cut out of the usable rectangle.
Gaps(S) == { RSub(p[2], p[1]) : p \in { q \in S \X S : RLt(q[1], q[2]) } }

SmallestCell(divs, u) ==
    RMul(Least(Gaps(VerticalXs(divs, u) \cup {u.left, u.right})),
         Least(Gaps(HorizontalYs(divs, u) \cup {u.top, u.bottom})))

GridCount(divs, u) ==
    (Cardinality(VerticalXs(divs, u)) + 1) * (Cardinality(HorizontalYs(divs, u)) + 1)

InputIsGrid == PositiveUsable /\ IsGrid(dividers, usable(width, height, margin))

InputIsIntegerGrid == InputIsGrid /\ IntegerLines(dividers)

\* C1: with no dividers and a positive usable width and height the result is
\* the one rectangle (margin, margin), (width-margin, margin),
\* (width-margin, height-margin), (margin, height-margin), of area
\* (width - 2*margin) * (height - 2*margin).
C1_SingleRectangle ==
    (Returned /\ dividers = <<>> /\ PositiveUsable)
    => /\ result = << << Pt(margin, margin),
                         Pt(RSub(width, margin), margin),
                         Pt(RSub(width, margin), RSub(height, margin)),
                         Pt(margin, RSub(height, margin)) >> >>
       /\ calc_area(result[1]) = RMul(usable_width, usable_height)

C1_Reached ==
    /\ Returned /\ dividers = <<>> /\ PositiveUsable
    /\ margin = <<50, 1>> /\ Len(result) = 1

\* C2 as written: m vertical and n horizontal zero-gutter full-span lines at
\* distinct integer coordinates, in any order, give (m+1)*(n+1) panels.
C2_GridCount ==
    (Returned /\ InputIsIntegerGrid)
    => Len(result) = GridCount(dividers, usable(width, height, margin))

\* C2, amended: the grid gives (m+1)*(n+1) panels provided every cell of
\* the grid has an area greater than MIN_AREA.
C2_GridCountAboveMinArea ==
    (Returned /\ InputIsIntegerGrid
        /\ RLt(MIN_AREA, SmallestCell(dividers, usable(width, height, margin))))
    => Len(result) = GridCount(dividers, usable(width, height, margin))

C2_Reached ==
    /\ Returned /\ InputIsIntegerGrid
    /\ RLt(MIN_AREA, SmallestCell(dividers, usable(width, height, margin)))
    /\ Cardinality(VerticalXs(dividers, usable(width, height, margin))) = 2
    /\ Cardinality(HorizontalYs(dividers, usable(width, height, margin))) = 1
    /\ Len(result) = 6

\* The bounding rectangle with the given sides.
HasBounds(panel, l, t, r, b) ==
    boundingRect(panel) = [left |-> l, top |-> t, right |-> r, bottom |-> b]

\* The list is a full-span horizontal followed by a vertical from a point of
\* it to the bottom boundary, both with gutter 0.
IsTee(divs, u) ==
    /\ Len(divs) = 2
    /\ IsHorizontal(divs[1], u) /\ divs[1].gutter_width = Zero
    /\ divs[2].x1 = divs[2].x2 /\ divs[2].gutter_width = Zero
    /\ RLt(u.left, divs[2].x1) /\ RLt(divs[2].x1, u.right)
    /\ {divs[2].y1, divs[2].y2} = {divs[1].y1, u.bottom}

\* Three panels: the whole rectangle above y, and the two parts below it.
TeePanels(panels, x, y, u) ==
    /\ Len(panels) = 3
    /\ \E i \in 1..3 : /\ HasBounds(panels[i], u.left, u.top, u.right, y)
                       /\ Len(panels[i]) = 4
    /\ \E i \in 1..3 : HasBounds(panels[i], u.left, y, x, u.bottom)
    /\ \E i \in 1..3 : HasBounds(panels[i], x, y, u.right, u.bottom)

InputIsTee == PositiveUsable /\ IsTee(dividers, usable(width, height, margin))

\* The smaller of the two parts below the horizontal.
SmallestLower(divs, u) ==
    RMul(RMin(RSub(divs[2].x1, u.left), RSub(u.right, divs[2].x1)),
         RSub(u.bottom, divs[1].y1))

InQuadrant(rect, x, y, right, below) ==
    /\ IF right THEN RLt(x, center_x(rect)) ELSE RLt(center_x(rect), x)
    /\ IF below THEN RLt(y, center_y(rect)) ELSE RLt(center_y(rect), y)

\* Top-right, top-left, bottom-right, bottom-left.
ReadingOrder(panels, x, y) ==
    /\ Len(panels) = 4
    /\ InQuadrant(boundingRect(panels[1]), x, y, TRUE, FALSE)
    /\ InQuadrant(boundingRect(panels[2]), x, y, FALSE, FALSE)
    /\ InQuadrant(boundingRect(panels[3]), x, y, TRUE, TRUE)
    /\ InQuadrant(boundingRect(panels[4]), x, y, FALSE, TRUE)

\* One vertical and one horizontal, gutter 0, in either order.
InputIsCross ==
    /\ InputIsGrid
    /\ Len(dividers) = 2
    /\ Cardinality(VerticalXs(dividers, usable(width, height, margin))) = 1

CrossX == Least(VerticalXs(dividers, usable(width, height, margin)))

CrossY == Least(HorizontalYs(dividers, usable(width, height, margin)))

XRange(panel) == <<boundingRect(panel).left, boundingRect(panel).right>>

YRange(panel) == <<boundingRect(panel).top, boundingRect(panel).bottom>>

InputIsC5 ==
    /\ width = <<1000, 1>> /\ height = <<1400, 1>> /\ margin = Zero
    /\ dividers = << Divider(500, 0, 500, 1400, 20) >>

\* C5: on the 1000 x 1400 page without margin, the vertical divider at
\* x = 500 with gutter 20 gives 2 panels with x-ranges [0, 490] and
\* [510, 1000] and y-range [0, 1400].
C5_HalfGutterEachSide ==
    (Returned /\ InputIsC5)
    => /\ Len(result) = 2
       /\ { XRange(result[i]) : i \in 1..Len(result) }
            = { << <<0, 1>>, <<490, 1>> >>, << <<510, 1>>, <<1000, 1>> >> }
       /\ \A i \in 1..Len(result) : YRange(result[i]) = << <<0, 1>>, <<1400, 1>> >>

C5_Reached == Returned /\ InputIsC5 /\ "gutter" \in steps /\ Len(result) = 2

\* The divider list with the gutter of divider i replaced.
WithGutter(divs, i, g) == [divs EXCEPT ![i].gutter_width = g]

\* The amounts D added to a gutter.
GutterDeltas == { <<20, 1>> }

\* Bounding-box sides, facing the line x = c, of the panels on either side.
RightsLeftOf(panels, c) ==
    { boundingRect(panels[k]).right :
        k \in { j \in 1..Len(panels) : RLt(center_x(boundingRect(panels[j])), c) } }

LeftsRightOf(panels, c) ==
    { boundingRect(panels[k]).left :
        k \in { j \in 1..Len(panels) : RLt(c, center_x(boundingRect(panels[j]))) } }

BottomsAbove(panels, c) ==
    { boundingRect(panels[k]).bottom :
        k \in { j \in 1..Len(panels) : RLt(center_y(boundingRect(panels[j])), c) } }

TopsBelow(panels, c) ==
    { boundingRect(panels[k]).top :
        k \in { j \in 1..Len(panels) : RLt(c, center_y(boundingRect(panels[j]))) } }

\* The distance from the nearest side before the line to the nearest after.
GapBetween(before, after) == RSub(Least(after), Greatest(before))

Widens(before1, after1, before2, after2, D) ==
    /\ before1 # {} /\ after1 # {} /\ before2 # {} /\ after2 # {}
    /\ GapBetween(before2, after2) = RAdd(GapBetween(before1, after1), D)

WidensAcrossX(panels1, panels2, c, D) ==
    Widens(RightsLeftOf(panels1, c), LeftsRightOf(panels1, c),
           RightsLeftOf(panels2, c), LeftsRightOf(panels2, c), D)

WidensAcrossY(panels1, panels2, c, D) ==
    Widens(BottomsAbove(panels1, c), TopsBelow(panels1, c),
           BottomsAbove(panels2, c), TopsBelow(panels2, c), D)

\* The panels returned for the same input with D added to gutter i.
WithWiderGutter(i, D) ==
    calculate_panels(width, height,
                     WithGutter(dividers, i, RAdd(dividers[i].gutter_width, D)), margin)

\* C6: for every full-span axis-aligned divider strictly inside the usable
\* area, adding D > 0 to its gutter widens the distance between the
\* bounding boxes of the panels on its two sides, measured across it, by
\* exactly D.
C6_GutterWidensGap ==
    (Returned /\ PositiveUsable)
    => \A i \in DOMAIN dividers : \A D \in GutterDeltas :
          /\ IsVertical(dividers[i], usable(width, height, margin))
                => WidensAcrossX(result, WithWiderGutter(i, D), dividers[i].x1, D)
          /\ IsHorizontal(dividers[i], usable(width, height, margin))
                => WidensAcrossY(result, WithWiderGutter(i, D), dividers[i].y1, D)

\* C7: when width - 2*margin <= 0 or height - 2*margin <= 0 the call
\* returns the empty list and no extension, split, filter, gutter or sort
\* step has run, whatever the dividers.
C7_EmptyWithoutWork ==
    (Returned /\ (RLe(usable_width, Zero) \/ RLe(usable_height, Zero)))
    => /\ result = <<>>
       /\ steps = {}
       /\ polygons = <<>> /\ extended_lines = <<>> /\ idx = 0

C7_Reached ==
    /\ Returned
    /\ usable_width = Zero /\ RLt(Zero, usable_height)
    /\ dividers # <<>>
    /\ result = <<>>

\* The indices (from 1) of the panels that contain the point.
Matches(panels, point) == { i \in 1..Len(panels) : containsPoint(panels[i], point) }

\* The smallest index of S counted from 0, or -1 for the empty set.
SmallestOr(S) == IF S = {} THEN -1 ELSE (CHOOSE i \in S : \A j \in S : i <= j) - 1

\* C9: get_panel_at_point returns the smallest index whose panel contains
\* the point under the even-odd rule, and -1 exactly when no panel does.
C9_SmallestContaining ==
    query.asked => query.index = SmallestOr(Matches(result, query.point))

C9_Reached ==
    /\ query.asked
    /\ Cardinality(Matches(result, query.point)) >= 2
    /\ query.index = SmallestOr(Matches(result, query.point))

\* pos lies on the closed segment from a to b.
OnEdge(a, b, pos) ==
    /\ RMul(RSub(b.x, a.x), RSub(pos.y, a.y)) = RMul(RSub(b.y, a.y), RSub(pos.x, a.x))
    /\ RLe(RMin(a.x, b.x), pos.x) /\ RLe(pos.x, RMax(a.x, b.x))
    /\ RLe(RMin(a.y, b.y), pos.y) /\ RLe(pos.y, RMax(a.y, b.y))

OnOutline(panel, pos) ==
    \E i \in 1..Len(panel) : OnEdge(panel[i], panel[Succ(i, Len(panel))], pos)

StrictlyInside(panel, pos) == containsPoint(panel, pos) /\ ~OnOutline(panel, pos)

Probes == { IPt(x, y) : x \in QueryXs, y \in QueryYs }

\* C10: no point lies strictly inside two distinct returned panels.
C10_DisjointInteriors ==
    Returned
    => \A pos \in Probes :
          Cardinality({ i \in 1..Len(result) : StrictlyInside(result[i], pos) }) <= 1

\* p lies in the closed usable rectangle u.
InUsable(p, u) ==
    /\ RLe(u.left, p.x) /\ RLe(p.x, u.right)
    /\ RLe(u.top, p.y) /\ RLe(p.y, u.bottom)

AllInUsable(panels, u) ==
    \A i \in 1..Len(panels) : \A k \in 1..Len(panels[i]) : InUsable(panels[i][k], u)

\* C11: every vertex of every returned panel lies in the closed usable
\* rectangle [margin, width-margin] x [margin, height-margin].
C11_VerticesInUsable ==
    Returned => AllInUsable(result, usable(width, height, margin))

\* The sum of the shoelace areas of polys[k..].
RECURSIVE AreaSum(_, _)
AreaSum(polys, k) ==
    IF k > Len(polys) THEN Zero
    ELSE RAdd(calc_area(polys[k]), AreaSum(polys, k + 1))

\* The sum of the areas of the polygons of area at most MIN_AREA.
RECURSIVE SliverSum(_, _)
SliverSum(polys, k) ==
    IF k > Len(polys) THEN Zero
    ELSE RAdd(IF RLe(calc_area(polys[k]), MIN_AREA) THEN calc_area(polys[k]) ELSE Zero,
              SliverSum(polys, k + 1))

UsableArea == RMul(usable_width, usable_height)

ZeroGutters == \A i \in DOMAIN dividers : dividers[i].gutter_width = Zero

\* C12: after each divider processed by the loop the areas of the current
\* polygons sum to the usable area, and with all gutters 0 the areas of the
\* returned panels sum to the usable area less the discarded polygons of
\* area at most 1.0.
C12_AreaPreserved ==
    /\ (pc \in {"loop", "gutter", "sort"} \/ (Returned /\ PositiveUsable))
          => AreaSum(polygons, 1) = UsableArea
    /\ (Returned /\ PositiveUsable /\ ZeroGutters)
          => RAdd(AreaSum(result, 1), SliverSum(polygons, 1)) = UsableArea

C12_Reached ==
    /\ Returned /\ ZeroGutters
    /\ dividers = << Horizontal(<<1000, 1400, 50>>, 700, 0), Diagonal(<<1000, 1400, 50>>) >>
    /\ Len(polygons) = 3 /\ Len(result) = 3

IsExtended(d) == extend_divider(d, usable(width, height, margin), <<>>).ok

ExtendedIndices == { i \in DOMAIN dividers : IsExtended(dividers[i]) }

\* The list position of the divider that extended line k was derived from.
SourceOf(k) ==
    CHOOSE i \in ExtendedIndices : Cardinality({ j \in ExtendedIndices : j <= i }) = k

\* C15: in the gutter step every extended line is applied with the
\* gutter_width of the divider it was derived from, so the returned panels
\* are those of the list without the skipped dividers.
C15_GutterOfSource ==
    (Returned /\ PositiveUsable)
    => /\ \A k \in 1..Len(extended_lines) :
             gutter_of(dividers, k) = dividers[SourceOf(k)].gutter_width
       /\ result = calculate_panels(width, height, SelectSeq(dividers, IsExtended), margin)

\* The structural tolerance of the extension (5 units).
NearBy(a, b) == RLt(RAbs(RSub(a, b)), SegmentTolerance)

\* A full-span horizontal followed by a vertical that runs from within the
\* tolerance of the horizontal down to the bottom boundary.
IsNearTee(divs, u) ==
    /\ Len(divs) = 2
    /\ IsHorizontal(divs[1], u)
    /\ divs[2].x1 = divs[2].x2
    /\ RLt(u.left, divs[2].x1) /\ RLt(divs[2].x1, u.right)
    /\ \/ divs[2].y2 = u.bottom /\ NearBy(divs[2].y1, divs[1].y1)
       \/ divs[2].y1 = u.bottom /\ NearBy(divs[2].y2, divs[1].y1)

\* The same list with the upper endpoint of the vertical put on the horizontal.
ExactTee(divs, u) ==
    << divs[1],
       IF divs[2].y2 = u.bottom THEN [divs[2] EXCEPT !.y1 = divs[1].y1]
       ELSE [divs[2] EXCEPT !.y2 = divs[1].y1] >>

SameAsThree(panels, exact) == Len(exact) = 3 => panels = exact

\* C16: a vertical whose upper raw endpoint is less than 5 units above or
\* below the horizontal gives the same 3 panels as the vertical that starts
\* exactly on the horizontal.
C16_NearTeeAbsorbed ==
    (Returned /\ PositiveUsable /\ IsNearTee(dividers, usable(width, height, margin)))
    => SameAsThree(result,
                   calculate_panels(width, height,
                       ExactTee(dividers, usable(width, height, margin)), margin))

\* (ax, ay) x (bx, by)
Cross(ax, ay, bx, by) == RSub(RMul(ax, by), RMul(ay, bx))

\* The cross product of q - p and r - p.
Turn(p, q, r) == Cross(RSub(q.x, p.x), RSub(q.y, p.y), RSub(r.x, p.x), RSub(r.y, p.y))

\* -1, 0 or 1 as p lies right of, on or left of the line from s to e.
SideOf(p, s, e) ==
    IF RLt(Zero, Turn(s, e, p)) THEN 1
    ELSE IF RLt(Turn(s, e, p), Zero) THEN -1 ELSE 0

Parallel(a, b, s, e) ==
    RIsZero(Cross(RSub(b.x, a.x), RSub(b.y, a.y), RSub(e.x, s.x), RSub(e.y, s.y)))

\* The infinite line through s and e meets the edge from a to b.
LineMeetsEdge(a, b, s, e) ==
    ~Parallel(a, b, s, e) /\ SideOf(a, s, e) * SideOf(b, s, e) <= 0

\* The segment from s to e itself meets the edge from a to b.
SegmentMeetsEdge(a, b, s, e) ==
    LineMeetsEdge(a, b, s, e) /\ SideOf(s, a, b) * SideOf(e, a, b) <= 0

\* The point where the line through s and e crosses the line through a and b.
CrossPointAt(a, b, t) ==
    Pt(RAdd(a.x, RMul(t, RSub(b.x, a.x))), RAdd(a.y, RMul(t, RSub(b.y, a.y))))

CrossPoint(a, b, s, e) ==
    CrossPointAt(a, b,
        RDiv(Cross(RSub(s.x, a.x), RSub(s.y, a.y), RSub(e.x, s.x), RSub(e.y, s.y)),
             Cross(RSub(b.x, a.x), RSub(b.y, a.y), RSub(e.x, s.x), RSub(e.y, s.y))))

\* Two points the duplicate test of the split keeps apart.
Apart(p, q) ==
    \/ RLe(POINT_TOLERANCE, RAbs(RSub(p.x, q.x)))
    \/ RLe(POINT_TOLERANCE, RAbs(RSub(p.y, q.y)))

EdgeEnd(poly, i) == poly[Succ(i, Len(poly))]

SegmentEdges(poly, s, e) ==
    { i \in DOMAIN poly : SegmentMeetsEdge(poly[i], EdgeEnd(poly, i), s, e) }

LineEdges(poly, s, e) ==
    { i \in DOMAIN poly : LineMeetsEdge(poly[i], EdgeEnd(poly, i), s, e) }

\* Two edges of the set are crossed at points that differ (apart = FALSE) or
\* that the duplicate test keeps apart (apart = TRUE).
TwoCrossings(poly, s, e, edges, apart) ==
    \E i, j \in edges :
        /\ i < j
        /\ IF apart
           THEN Apart(CrossPoint(poly[i], EdgeEnd(poly, i), s, e),
                      CrossPoint(poly[j], EdgeEnd(poly, j), s, e))
           ELSE CrossPoint(poly[i], EdgeEnd(poly, i), s, e)
                    # CrossPoint(poly[j], EdgeEnd(poly, j), s, e)

\* The line the loop is about to cut with.
NextLine == extend_divider(dividers[idx], usable(width, height, margin), extended_lines)

AboutToCut == pc = "loop" /\ idx <= Len(dividers)

InfiniteCut(poly, s, e) ==
    TwoCrossings(poly, s, e, LineEdges(poly, s, e), FALSE)
        => Len(split_polygon(poly, s, e)) = 2

AllInfiniteCut(ext) ==
    ext.ok => \A k \in DOMAIN polygons : InfiniteCut(polygons[k], ext.start, ext.end)

\* C17 (as stated): every polygon whose edges the infinite line through the
\* extended line's endpoints crosses at two distinct points is split in two,
\* also when the segment between the endpoints does not reach those edges.
C17_InfiniteCut == AboutToCut => AllInfiniteCut(NextLine)

SegmentCutOn(poly, s, e, edges, parts) ==
    /\ Cardinality(edges) < 2 => parts = <<poly>>
    /\ TwoCrossings(poly, s, e, edges, TRUE) => Len(parts) = 2

SegmentCut(poly, s, e) ==
    SegmentCutOn(poly, s, e, SegmentEdges(poly, s, e), split_polygon(poly, s, e))

AllSegmentCut(ext) ==
    ext.ok => \A k \in DOMAIN polygons : SegmentCut(polygons[k], ext.start, ext.end)

\* C17 (amended): the cut is made with the segment between the extended
\* line's endpoints.  A polygon is split in two when the segment itself meets
\* two of its edges at points at least POINT_TOLERANCE apart in x or in y, and
\* is returned unsplit when the segment meets fewer than two of its edges,
\* also when the infinite line through the endpoints crosses the polygon.
C17_SegmentCut == AboutToCut => AllSegmentCut(NextLine)

MissedBySegment(poly, s, e) ==
    /\ TwoCrossings(poly, s, e, LineEdges(poly, s, e), FALSE)
    /\ Cardinality(SegmentEdges(poly, s, e)) < 2
    /\ split_polygon(poly, s, e) = <<poly>>

\* The vertical of a T-junction is about to cut: its line crosses the upper
\* polygon, its segment does not, and the lower polygon is cut in two.
C17_Reached ==
    /\ AboutToCut
    /\ idx = 2
    /\ dividers = << Horizontal(<<1000, 1400, 0>>, 700, 0), Tee(<<1000, 1400, 0>>, 500, 700) >>
    /\ NextLine.ok
    /\ MissedBySegment(polygons[1], NextLine.start, NextLine.end)
    /\ Len(split_polygon(polygons[2], NextLine.start, NextLine.end)) = 2

OnBoundary(p, u) ==
    /\ InUsable(p, u)
    /\ \/ p.x = u.left \/ p.x = u.right
       \/ p.y = u.top  \/ p.y = u.bottom

Between(v, a, b) == (RLe(a, v) /\ RLe(v, b)) \/ (RLe(b, v) /\ RLe(v, a))

OnSegment(p, line) ==
    /\ SideOf(p, line.start, line.end) = 0
    /\ Between(p.x, line.start.x, line.end.x)
    /\ Between(p.y, line.start.y, line.end.y)

Anchored(p, u, k) ==
    (OnBoundary(p, u) \/ \E j \in 1..(k - 1) : OnSegment(p, extended_lines[j]))
        /\ InUsable(p, u)

AllAnchored(u) ==
    \A k \in DOMAIN extended_lines :
        Anchored(extended_lines[k].start, u, k) /\ Anchored(extended_lines[k].end, u, k)

\* C18: both endpoints of every extended line lie on a boundary edge of the
\* usable rectangle or on an extended line of an earlier divider, hence inside
\* the closed usable rectangle, whatever the raw endpoints were.
C18_EndpointsAnchored == PositiveUsable => AllAnchored(usable(width, height, margin))

Dot(ax, ay, bx, by) == RAdd(RMul(ax, bx), RMul(ay, by))

GapSq(p, q) == RAdd(RSq(RSub(p.x, q.x)), RSq(RSub(p.y, q.y)))

\* q lies ahead of p on the ray that leaves p away from other.
Forward(p, other, q) ==
    /\ SideOf(q, other, p) = 0
    /\ RLt(Zero, Dot(RSub(q.x, p.x), RSub(q.y, p.y), RSub(p.x, other.x), RSub(p.y, other.y)))

\* The boundary edges and the lines extended so far.
Candidates(u, lines) ==
    { boundaries(u.left, u.top, u.right, u.bottom)[k] : k \in 1..4 }
        \cup { lines[k] : k \in DOMAIN lines }

NearerAt(p, other, q, seg, x) ==
    OnSegment(x, seg) /\ Forward(p, other, x) /\ RLt(GapSq(p, x), GapSq(p, q))

\* seg is hit by the ray strictly before q.
HitBefore(p, other, q, seg) ==
    /\ ~Parallel(seg.start, seg.end, other, p)
    /\ NearerAt(p, other, q, seg, CrossPoint(seg.start, seg.end, other, p))

\* An endpoint moved from p to q went forward to the nearest candidate.
NearestForward(p, other, q, cands) ==
    q # p =>
        /\ Forward(p, other, q)
        /\ \E seg \in cands : OnSegment(q, seg)
        /\ \A seg \in cands : ~HitBefore(p, other, q, seg)

RawStart(d) == Pt(d.x1, d.y1)

RawEnd(d) == Pt(d.x2, d.y2)

BothNearestForward(d, ext, cands) ==
    ext.ok =>
        /\ NearestForward(RawStart(d), RawEnd(d), ext.start, cands)
        /\ NearestForward(RawEnd(d), RawStart(d), ext.end, cands)

\* Two full-span verticals, then a horizontal of length >= 1 drawn strictly
\* between them.
IsBetweenParallels(divs, u) ==
    /\ Len(divs) = 3
    /\ IsVertical(divs[1], u) /\ IsVertical(divs[2], u)
    /\ divs[3].y1 = divs[3].y2
    /\ RLe(One, RAbs(RSub(divs[3].x2, divs[3].x1)))
    /\ RLt(u.top, divs[3].y1) /\ RLt(divs[3].y1, u.bottom)
    /\ \A x \in {divs[3].x1, divs[3].x2} :
           /\ RLt(RMin(divs[1].x1, divs[2].x1), x)
           /\ RLt(x, RMax(divs[1].x1, divs[2].x1))

\* The third line ends on the two verticals and only the polygons between
\* them are cut: the others keep the full height of the usable rectangle.
EndsOnParallels(divs, u, lo, hi) ==
    /\ {extended_lines[3].start.x, extended_lines[3].end.x} = {lo, hi}
    /\ \A k \in DOMAIN polygons :
           IF XRange(polygons[k]) = <<lo, hi>>
           THEN YRange(polygons[k])[1] = divs[3].y1 \/ YRange(polygons[k])[2] = divs[3].y1
           ELSE YRange(polygons[k]) = <<u.top, u.bottom>>
    /\ Len(polygons) = 4

BetweenParallels(divs, u) ==
    IsBetweenParallels(divs, u) =>
        EndsOnParallels(divs, u, RMin(divs[1].x1, divs[2].x1), RMax(divs[1].x1, divs[2].x1))

\* C19: an endpoint that _extend_line moves goes forward along its ray to a
\* boundary edge or an earlier extended line, and no boundary edge or earlier
\* extended line is hit nearer; a divider drawn strictly between two earlier
\* parallel dividers ends on both, and no polygon beyond them is split.
C19_NearestForwardHit ==
    /\ (AboutToCut /\ PositiveUsable)
           => BothNearestForward(dividers[idx], NextLine,
                  Candidates(usable(width, height, margin), extended_lines))
    /\ (Returned /\ PositiveUsable) => BetweenParallels(dividers, usable(width, height, margin))

C19_Reached ==
    /\ Returned
    /\ margin = <<50, 1>>
    /\ IsBetweenParallels(dividers, usable(width, height, margin))
    /\ extended_lines[3] = [start |-> Pt(<<300, 1>>, <<700, 1>>), end |-> Pt(<<700, 1>>, <<700, 1>>)]
    /\ Len(result) = 4

\* The lines of the loop of calculate_panels for the list divs on the usable
\* rectangle u, without the polygons: each divider is extended against the
\* lines extended before it, and a divider that gives None adds nothing.
line_or_none(extended) ==
    IF extended.ok THEN <<[start |-> extended.start, end |-> extended.end]>> ELSE <<>>

RECURSIVE lines_from(_, _, _, _)
lines_from(divs, u, k, lines) ==
    IF k > Len(divs) THEN lines
    ELSE lines_from(divs, u, k + 1, lines \o line_or_none(extend_divider(divs[k], u, lines)))

LinesOf(divs) == lines_from(divs, usable(width, height, margin), 1, <<>>)

IndependentOfLater(done) == extended_lines = LinesOf(done)

\* C20: the lines extended for the dividers processed so far are those of the
\* list cut after them, whatever dividers follow in the list.
C20_IndependentOfLater ==
    (pc = "loop" /\ PositiveUsable) => IndependentOfLater(SubSeq(dividers, 1, idx - 1))

\* The short line was extended first, to the boundary, with both verticals
\* still to come.
C20_Reached ==
    /\ pc = "loop"
    /\ idx = 2
    /\ dividers = << Short(700), Vertical(<<1000, 1400, 0>>, 300, 0),
                     Vertical(<<1000, 1400, 0>>, 700, 0) >>
    /\ margin = Zero
    /\ extended_lines = << [start |-> Pt(Zero, <<700, 1>>), end |-> Pt(<<1000, 1>>, <<700, 1>>)] >>

\* The distance of p from the line through s and e, and that line's length.
LineLength(s, e) == RSqrt(GapSq(s, e))

DistanceTo(p, s, e) == RDiv(RAbs(Turn(s, e, p)), LineLength(s, e))

Corners(u) == { Pt(u.left, u.top), Pt(u.right, u.top), Pt(u.right, u.bottom), Pt(u.left, u.bottom) }

\* One divider with a gutter, away by at least the gutter from every corner
\* of the usable rectangle it does not pass through.
SingleWithGutter(divs, u, ext) ==
    /\ ext.ok
    /\ RLt(Zero, divs[1].gutter_width)
    /\ \A c \in Corners(u) :
           RIsZero(DistanceTo(c, ext.start, ext.end))
               \/ RLe(divs[1].gutter_width, DistanceTo(c, ext.start, ext.end))

\* The panel lies at least half from the line and has an edge at exactly half.
ShrunkBy(panel, s, e, half) ==
    /\ \A k \in DOMAIN panel : RLe(half, DistanceTo(panel[k], s, e))
    /\ \E j, k \in DOMAIN panel :
           /\ panel[j] # panel[k]
           /\ DistanceTo(panel[j], s, e) = half
           /\ DistanceTo(panel[k], s, e) = half

BothShrunk(panels, line, half) ==
    /\ Len(panels) = 2
    /\ \A i \in DOMAIN panels : ShrunkBy(panels[i], line.start, line.end, half)

\* C21: with a single divider of gutter g > 0, of any direction, both
\* returned panels have their edge along the divider at distance g/2 from
\* it, and no vertex nearer.
C21_BothSidesShrunk ==
    (/\ Returned /\ PositiveUsable /\ Len(dividers) = 1
     /\ SingleWithGutter(dividers, usable(width, height, margin),
            extend_divider(dividers[1], usable(width, height, margin), <<>>)))
        => BothShrunk(result, extended_lines[1], RDiv(dividers[1].gutter_width, <<2, 1>>))

\* The positions in the list given to _sort_panels_manga_order of the panels
\* it returns, in the order of the returned list.
indices_of(row_sorted) == [i \in 1..Len(row_sorted) |-> row_sorted[i].index]

RECURSIVE emit_indices(_, _)
emit_indices(rows, k) ==
    IF k > Len(rows) THEN <<>>
    ELSE indices_of(SortByCxDesc(rows[k])) \o emit_indices(rows, k + 1)

OrderOf(panels) ==
    IF Len(panels) <= 1 THEN [i \in 1..Len(panels) |-> i]
    ELSE emit_indices(rows_of(SortByTop(panel_data(panels))), 1)

\* The dividers with every gutter width set to g.
Regutter(divs, g) == [i \in DOMAIN divs |-> [divs[i] EXCEPT !.gutter_width = g]]

\* The list handed to the sort when the gutters are those of divs.
BeforeSort(divs) ==
    gutter_stage(filter_area(polygons, 1), extended_lines, divs,
                 usable(width, height, margin))

SameCells(divs, other) ==
    /\ Len(calculate_panels(width, height, other, margin)) = Len(result)
    /\ OrderOf(BeforeSort(other)) = OrderOf(BeforeSort(divs))

\* C22: with the gutters all set to 0 the same number of panels is returned
\* and every output index holds the panel derived from the same pre-gutter
\* polygon as with the gutters of the input.
C22_GuttersKeepCells ==
    (pc = "done" /\ PositiveUsable /\ dividers # <<>>)
        => SameCells(dividers, Regutter(dividers, Zero))

\* The raw endpoints of d are at least 1 unit apart.
LongEnough(d) == RLe(One, GapSq(RawStart(d), RawEnd(d)))

HasShort(divs) == \E i \in DOMAIN divs : ~LongEnough(divs[i])

\* The polygons and lines of the loop of calculate_panels for the list divs.
LoopOf(divs) ==
    divider_loop(divs, usable(width, height, margin), 1,
        [polygons |-> <<initial_poly(width, height, margin)>>, lines |-> <<>>])

SameLoop(st) == polygons = st.polygons /\ extended_lines = st.lines

\* C23: when the loop over a list with dividers shorter than 1 unit has
\* ended, the polygons and the extended lines are those of the list without
\* these dividers.
C23_ShortDividersSkipped ==
    (pc = "gutter" /\ PositiveUsable /\ HasShort(dividers))
        => SameLoop(LoopOf(SelectSeq(dividers, LongEnough)))

\* A vertical of length 1/2 on the bottom boundary, then a full-span vertical.
C23_Reached ==
    /\ pc = "gutter"
    /\ margin = Zero
    /\ dividers = << HalfTee(<<1000, 1400, 0>>, 500), Horizontal(<<1000, 1400, 0>>, 700, 0) >>
    /\ Len(extended_lines) = 1
    /\ Len(polygons) = 2

\* q lists the vertices of p in the same cyclic order.
IsRotation(p, q) ==
    /\ Len(p) = Len(q)
    /\ \E k \in 0..(Len(p) - 1) :
           \A i \in DOMAIN p : q[i] = p[((i - 1 + k) % Len(p)) + 1]

SamePanels(ps, qs) ==
    /\ Len(ps) = Len(qs)
    /\ \A i \in DOMAIN ps : IsRotation(ps[i], qs[i])

Front(s) == SubSeq(s, 1, Len(s) - 1)

Last(s) == s[Len(s)]

\* The last divider repeats a zero-gutter full-span divider of the list.
EndsWithDuplicate(divs, u) ==
    /\ Len(divs) >= 2
    /\ Last(divs).gutter_width = Zero
    /\ IsVertical(Last(divs), u) \/ IsHorizontal(Last(divs), u)
    /\ \E i \in DOMAIN Front(divs) : divs[i] = Last(divs)

\* C24: a list that ends with a repetition of one of its zero-gutter
\* full-span dividers returns the panels of the list without the repetition;
\* the repeated cut leaves polygons of area 0, which are not returned.
C24_DuplicateIgnored ==
    (pc = "done" /\ PositiveUsable /\ EndsWithDuplicate(dividers, usable(width, height, margin)))
        => /\ SamePanels(result, calculate_panels(width, height, Front(dividers), margin))
           /\ Len(result) = Cardinality({ k \in DOMAIN polygons :
                                               RLt(MIN_AREA, calc_area(polygons[k])) })

----------------------------------------------------------------------------
(* _sort_panels_manga_order on its own: the list in polygons is sorted     *)
(* into result, and the returned list is sorted once more.                 *)

Rect(l, t, r, b) == << IPt(l, t), IPt(r, t), IPt(r, b), IPt(l, b) >>

\* Panels of a page of 1000 x 1400: the right column cut at 1100 and at 700,
\* the left column whole and cut at 700, a panel of height 0, and a triangle
\* with the bounding box of the upper left panel.
SortPool ==
    { Rect(500, 0, 1000, 1100), Rect(500, 1100, 1000, 1400), Rect(0, 0, 500, 1400),
      Rect(0, 0, 500, 700), Rect(0, 700, 500, 1400), Rect(500, 0, 1000, 700),
      Rect(0, 700, 500, 700), << IPt(0, 0), IPt(500, 0), IPt(0, 700) >> }

MaxPanels == 3

SortInit ==
    /\ polygons \in SeqsUpTo(SortPool, MaxPanels)
    /\ pc = "unsorted"
    /\ result = <<>>
    /\ width = Zero /\ height = Zero /\ margin = Zero /\ dividers = <<>>
    /\ idx = 0
    /\ extended_lines = <<>>
    /\ steps = {}
    /\ query = NoQuery

SortOnce ==
    /\ pc = "unsorted"
    /\ result' = sort_panels_manga_order(polygons)
    /\ pc' = "sorted"
    /\ UNCHANGED <<inputs, idx, polygons, extended_lines, steps, query>>

\* The returned list is given to the sort again.
SortAgain ==
    /\ pc = "sorted"
    /\ polygons' = result
    /\ result' = sort_panels_manga_order(result)
    /\ pc' = "resorted"
    /\ UNCHANGED <<inputs, idx, extended_lines, steps, query>>

SortNext == SortOnce \/ SortAgain

SortSpec == SortInit /\ [][SortNext]_vars

\* result is the sorted polygons.
Sorted == pc \in {"sorted", "resorted"}

TopOf(ps, i) == boundingRect(ps[i]).top

HeightOf(ps, i) == RSub(boundingRect(ps[i]).bottom, boundingRect(ps[i]).top)

CxOf(ps, i) == RDiv(RAdd(boundingRect(ps[i]).left, boundingRect(ps[i]).right), <<2, 1>>)

CyOf(ps, i) == RDiv(RAdd(boundingRect(ps[i]).top, boundingRect(ps[i]).bottom), <<2, 1>>)

\* i comes before j in ascending top, equal tops in list order.
Earlier(ps, i, j) == RLt(TopOf(ps, i), TopOf(ps, j)) \/ (TopOf(ps, i) = TopOf(ps, j) /\ i <= j)

SeedOf(ps, rem) == CHOOSE i \in rem : \A j \in rem : Earlier(ps, i, j)

\* The seed and the panels of rem whose vertical centre is nearer to the
\* seed's than 40% of the seed's height.
RowOf(ps, rem, seed) ==
    { j \in rem : j = seed
          \/ RLt(RAbs(RSub(CyOf(ps, j), CyOf(ps, seed))), RMul(<<2, 5>>, HeightOf(ps, seed))) }

RECURSIVE RowSets(_, _)
RowSets(ps, rem) ==
    IF rem = {} THEN <<>>
    ELSE <<RowOf(ps, rem, SeedOf(ps, rem))>>
         \o RowSets(ps, rem \ RowOf(ps, rem, SeedOf(ps, rem)))

CxNonIncreasing(ps, ord, from, to) ==
    \A i \in from..(to - 1) : RLe(CxOf(ps, ord[i + 1]), CxOf(ps, ord[i]))

LeastTop(ps, ord, from, to) == Least({ TopOf(ps, ord[i]) : i \in from..to })

\* From position from on, ord lists the rows k, k+1, ... one after the
\* other, each from right to left, the rows' highest tops going down.
RECURSIVE RowsFrom(_, _, _, _, _)
RowsFrom(ps, ord, rows, k, from) ==
    IF k > Len(rows) THEN from = Len(ord) + 1
    ELSE /\ from + Cardinality(rows[k]) - 1 <= Len(ord)
         /\ { ord[i] : i \in from..(from + Cardinality(rows[k]) - 1) } = rows[k]
         /\ CxNonIncreasing(ps, ord, from, from + Cardinality(rows[k]) - 1)
         /\ (k > 1 => RLe(LeastTop(ps, ord, from - Cardinality(rows[k - 1]), from - 1),
                          LeastTop(ps, ord, from, from + Cardinality(rows[k]) - 1)))
         /\ RowsFrom(ps, ord, rows, k + 1, from + Cardinality(rows[k]))

InRows(ps, ord) ==
    /\ \A i \in DOMAIN ord : result[i] = ps[ord[i]]
    /\ RowsFrom(ps, ord, RowSets(ps, DOMAIN ps), 1, 1)

Count(s, p) == Cardinality({ i \in DOMAIN s : s[i] = p })

\* C26: the returned list has the length of the input and holds every panel
\* as many times as the input does.
C26_Permutation ==
    Sorted => /\ Len(result) = Len(polygons)
              /\ \A i \in DOMAIN polygons : Count(result, polygons[i]) = Count(polygons, polygons[i])

\* Two identical panels and one of height 0.
C26_Reached ==
    /\ pc = "sorted"
    /\ polygons = << Rect(0, 700, 500, 700), Rect(0, 0, 500, 700), Rect(0, 0, 500, 700) >>
    /\ Len(result) = 3

\* C30: sorting the returned list again returns it unchanged.
C30_Idempotent == pc = "resorted" => result = polygons

----------------------------------------------------------------------------
(* calculate_panels on lists of full-span lines in every order.            *)

\* Full-span lines at distinct positions, each with its own gutter.
LinePool(pg) ==
    { Vertical(pg, 300, 0), Vertical(pg, 500, 20), Vertical(pg, pg[3] + 3, 20),
      Horizontal(pg, 700, 20), Horizontal(pg, 704, 100), Horizontal(pg, pg[3] + 1, 0) }

MaxLines == 3

LineInputs ==
    UNION { InputsOn(pg, { s \in SeqsUpTo(LinePool(pg), MaxLines) : Distinct(s) }) : pg \in Pages }
    \cup InputsOn(<<1000, 1400, 0>>, { << Divider(300, 300, 300, 300, 20) >>,
                   << Divider(300, 300, 300, 300, 20), Vertical(<<1000, 1400, 0>>, 500, 20) >> })
    \cup InputsOn(<<100, 100, 60>>, { <<>> })

LineInit == InitWith(LineInputs)

LineSpec == LineInit /\ [][Next]_vars

Boxes(panels) == [i \in DOMAIN panels |-> boundingRect(panels[i])]

\* The list with the dividers at k and k + 1 exchanged.
Swap(divs, k) == [divs EXCEPT ![k] = divs[k + 1], ![k + 1] = divs[k]]

\* Full-span lines, no two verticals at one x, no two horizontals at one y.
FullSpanDistinct(divs, u) ==
    /\ \A i \in DOMAIN divs : IsVertical(divs[i], u) \/ IsHorizontal(divs[i], u)
    /\ \A i, j \in DOMAIN divs :
           (i # j /\ IsVertical(divs[i], u) = IsVertical(divs[j], u))
               => <<divs[i].x1, divs[i].y1>> # <<divs[j].x1, divs[j].y1>>

SameBoxesSwapped(divs) ==
    \A k \in 1..(Len(divs) - 1) :
        Boxes(calculate_panels(width, height, Swap(divs, k), margin)) = Boxes(result)

----------------------------------------------------------------------------
(* Edges on the sides of the usable area through the gutter step.          *)

\* The four sides of the usable area, each from corner to corner.
Sides(u) ==
    { [start |-> Pt(u.left, u.top), end |-> Pt(u.right, u.top)],
      [start |-> Pt(u.right, u.top), end |-> Pt(u.right, u.bottom)],
      [start |-> Pt(u.right, u.bottom), end |-> Pt(u.left, u.bottom)],
      [start |-> Pt(u.left, u.bottom), end |-> Pt(u.left, u.top)] }

EdgeOnSide(panel, e, side) ==
    /\ OnSegment(panel[e], side)
    /\ OnSegment(panel[Succ(e, Len(panel))], side)

SideEdgesKept(before, after, u) ==
    \A k \in DOMAIN before : \A e \in DOMAIN before[k] : \A side \in Sides(u) :
        EdgeOnSide(before[k], e, side) => EdgeOnSide(after[k], e, side)

GutterStep == pc = "gutter" /\ pc' = "sort" /\ PositiveUsable

\* C28: an edge of a panel with both endpoints on one side of the usable
\* area keeps both its vertices on that side through the gutter step,
\* whatever the gutter widths.
C28_SideEdgesKept ==
    [][GutterStep => SideEdgesKept(result, result', usable(width, height, margin))]_vars

----------------------------------------------------------------------------
(* _split_polygon on one polygon and one cut segment.                      *)

\* A square, a triangle and an L-shaped hexagon.
CutPool ==
    { << IPt(0, 0), IPt(2, 0), IPt(2, 2), IPt(0, 2) >>,
      << IPt(0, 0), IPt(2, 0), IPt(0, 2) >>,
      << IPt(0, 0), IPt(2, 0), IPt(2, 1), IPt(1, 1), IPt(1, 2), IPt(0, 2) >> }

MaxCut == 3

CutCoords == { <<-1, 1>>, <<1, 4>> } \cup { R(i) : i \in 0..MaxCut }

CutPoints == { Pt(x, y) : x \in CutCoords, y \in CutCoords }

SplitInit ==
    /\ polygons \in { <<p>> : p \in CutPool }
    /\ extended_lines \in { << [start |-> s, end |-> e] >> : s \in CutPoints, e \in CutPoints }
    /\ pc = "uncut"
    /\ result = <<>>
    /\ width = Zero /\ height = Zero /\ margin = Zero /\ dividers = <<>>
    /\ idx = 0
    /\ steps = {}
    /\ query = NoQuery

SplitOnce ==
    /\ pc = "uncut"
    /\ result' = split_polygon(polygons[1], extended_lines[1].start, extended_lines[1].end)
    /\ pc' = "cut"
    /\ UNCHANGED <<inputs, idx, polygons, extended_lines, steps, query>>

SplitSpec == SplitInit /\ [][SplitOnce]_vars

\* The points where the cut meets the edges of the polygon, none for an edge
\* parallel to the cut.
CrossPoints(poly, s, e) ==
    { CrossPoint(poly[i], EdgeEnd(poly, i), s, e) : i \in SegmentEdges(poly, s, e) }

\* Fewer than 2 distinct points: no two of them are POINT_TOLERANCE apart in
\* x or in y.
FewerThanTwo(points) == \A p, q \in points : ~Apart(p, q)

Unsplit(poly, s, e) ==
    FewerThanTwo(CrossPoints(poly, s, e)) => result = <<poly>>

\* C29: a polygon the cut segment meets at fewer than 2 distinct points,
\* points closer than 0.5 in both x and y counting as one and an edge
\* parallel to the cut giving none, is returned alone, its vertices unchanged
\* and in the same order.
C29_Unsplit ==
    pc = "cut" => Unsplit(polygons[1], extended_lines[1].start, extended_lines[1].end)

\* The cut from (-1, 1) to (1, -1) touches the square at its vertex (0, 0)
\* only, where it meets two edges.
C29_Reached ==
    /\ pc = "cut"
    /\ polygons = << << IPt(0, 0), IPt(2, 0), IPt(2, 2), IPt(0, 2) >> >>
    /\ extended_lines = << [start |-> IPt(-1, 1), end |-> IPt(1, -1)] >>
    /\ SegmentEdges(polygons[1], IPt(-1, 1), IPt(1, -1)) = {1, 4}
    /\ CrossPoints(polygons[1], IPt(-1, 1), IPt(1, -1)) = { IPt(0, 0) }
    /\ result = polygons
====
